---- MODULE Spec2Model ----
(***************************************************************************)
(* Verification model of the trading engine: StrategyManager (loading,     *)
(* normalization, gates, overlays, analyze), TradeExecutor (execution      *)
(* gates, sizing, streak counters) and the trading loop of main.py         *)
(* (strategy hot reload).                                                  *)
(*                                                                         *)
(* Numbers are scaled integers:                                            *)
(*   risk fractions, drawdown limits     : 1/10000  (0.02  -> 200)         *)
(*   drawdown thresholds                 : 1/1000   (0.01  -> 10)          *)
(*   risk / ATR / spread multipliers     : 1/10     (0.8   -> 8)           *)
(*   risk_multiplier (dd * vol)          : 1/100    (0.48  -> 48)          *)
(*   confidence threshold                : 1/10     (60    -> 600)         *)
(*   LIM weights, thresholds, components : 1/100    (0.6   -> 60)          *)
(*   LIM score (rounded to 4 decimals)   : 1/10000  (0.625 -> 6250)        *)
(*   prices, ATR, spread                 : points   (1.2000 -> 12000)      *)
(*   stop_loss, take_profit              : 1/10 point                      *)
(* Arithmetic is exact (real) arithmetic on these scaled values; binary    *)
(* floating-point rounding is not modelled.  A float that may be NaN is a  *)
(* tuple: <<>> is NaN, <<x>> the number x.                                 *)
(* A JSON value whose type the code depends on is a tagged tuple           *)
(* <<"dict", f>>, <<"list", s>>, <<"str", s>>, <<"null">>; numbers and     *)
(* booleans of the documents are plain.                                    *)
(***************************************************************************)
EXTENDS Integers, Sequences, FiniteSets, TLC

VARIABLES
    \* ---- StrategyManager.load_strategy / get_symbols_from_strategy
    raw,        \* the document handed to load_strategy
    mgr,        \* the StrategyManager object
    lres,       \* what the last call on it returned
    lpc,        \* position of the loading scenario
    \* ---- StrategyManager.analyze
    req,        \* the arguments of analyze (strategy, bars, clock, news, spread, equity)
    out,        \* what analyze returned (signal, steps evaluated, how it ended)
    out2,       \* what the call before it returned, when it differed only in equity
    apc,        \* position of the analysis scenario
    \* ---- TradeExecutor and the broker it talks to
    te,         \* the TradeExecutor object
    broker,     \* the broker side: open positions, account, orders received
    last,       \* the last TradeExecutor call and what it did
    \* ---- main.py: the trading loop and the reload globals
    glob,       \* current_strategy_manager, strategy_file_path, current_trading_symbols
    disk,       \* config/strategies (the newest file) and config/.reload_strategy
    loop,       \* the loop's locals and its position
    \* ---- TradeExecutor.calculate_position_size
    scall,      \* the arguments of a sizing call and what the terminal answers
    slot        \* the lot it returned (NaN before the call)

lvars == <<raw, mgr, lres, lpc>>
avars == <<req, out, out2, apc>>
evars == <<te, broker, last>>
mvars == <<glob, disk, loop>>
svars == <<scall, slot>>
vars  == <<raw, mgr, lres, lpc, req, out, out2, apc, te, broker, last, glob, disk, loop,
           scall, slot>>

-----------------------------------------------------------------------------
(* JSON values and the Python operations the code applies to them          *)

EmptyMap == [k \in {} |-> 0]
Dict(f)  == <<"dict", f>>
List(s)  == <<"list", s>>
Str(s)   == <<"str", s>>
Null     == <<"null">>
Unparsable == <<"unparsable">>

IsDict(j) == j[1] = "dict"
IsList(j) == j[1] = "list"

\* bool(j) of a tagged value
Truthy(j) ==
    CASE j[1] = "dict" -> DOMAIN j[2] # {}
      [] j[1] = "list" -> Len(j[2]) > 0
      [] j[1] = "str"  -> j[2] # ""
      [] OTHER         -> FALSE

\* d.get(k, dflt) on a dict d
Get(d, k, dflt) == IF k \in DOMAIN d[2] THEN d[2][k] ELSE dflt
Has(d, k)       == k \in DOMAIN d[2]
\* a or b
Or(a, b) == IF Truthy(a) THEN a ELSE b
\* the same on plain numbers
OrNum(a, b) == IF a # 0 THEN a ELSE b

Min(a, b) == IF a < b THEN a ELSE b
Max(a, b) == IF a > b THEN a ELSE b

-----------------------------------------------------------------------------
(* StrategyManager: loading and normalization (strategy_manager.py)        *)

advanced_keys ==
    {"risk_management", "symbol_management", "general_parameters",
     "liquidity_imbalance_model", "drawdown_recovery_engine",
     "broker_auto_detection", "synthetic_macro_proxies"}

\* _detect_format on a dict
_detect_format(cfg) ==
    IF advanced_keys \cap DOMAIN cfg[2] # {} THEN "advanced" ELSE "legacy"

\* _parse_pips on a number (the documents of the model give pips as numbers)
_parse_pips(value) == value

\* the blocks _normalize reads with .get and then calls .get on
AdvancedBlocks ==
    {"symbol_management", "risk_management", "general_parameters",
     "dynamic_leverage_scaling", "liquidity_imbalance_model",
     "drawdown_recovery_engine", "execution_slippage_optimizer",
     "weekend_shield", "surprise_score_engine", "synthetic_macro_proxies"}
LegacyBlocks == {"parameters", "entry_conditions", "exit_strategy"}

\* _normalize raises: a block that is not a dict (AttributeError on .get), or
\* a risk_per_trade_range with fewer than two entries (IndexError)
NormalizeRaises(cfg, fmt) ==
    IF fmt = "advanced"
    THEN \/ \E b \in AdvancedBlocks : Has(cfg, b) /\ ~IsDict(cfg[2][b])
         \/ LET sym == Get(cfg, "symbol_management", Dict(EmptyMap))
            IN  IsDict(sym) /\ ~IsDict(Get(sym, "base_symbols", Dict(EmptyMap)))
    ELSE \/ \E b \in LegacyBlocks : Has(cfg, b) /\ ~IsDict(cfg[2][b])
         \/ LET params == Get(cfg, "parameters", Dict(EmptyMap))
            IN  /\ IsDict(params)
                /\ LET rr == Get(params, "risk_per_trade_range", List(<<100, 200>>))
                   IN  ~IsList(rr) \/ Len(rr[2]) < 2

NormalizeAdvanced(cfg) ==
    LET sym  == Get(cfg, "symbol_management", Dict(EmptyMap))
        base == Get(sym, "base_symbols", Dict(EmptyMap))
        pri  == Get(base, "primary", "XAUUSD")
        sec  == Get(base, "secondary", List(<<>>))
        rm   == Get(cfg, "risk_management", Dict(EmptyMap))
        gp   == Get(cfg, "general_parameters", Dict(EmptyMap))
        dls  == Get(cfg, "dynamic_leverage_scaling", Dict(EmptyMap))
        lim  == Get(cfg, "liquidity_imbalance_model", Dict(EmptyMap))
        dre  == Get(cfg, "drawdown_recovery_engine", Dict(EmptyMap))
        slo  == Get(cfg, "execution_slippage_optimizer", Dict(EmptyMap))
        ws   == Get(cfg, "weekend_shield", Dict(EmptyMap))
        sse  == Get(cfg, "surprise_score_engine", Dict(EmptyMap))
        smp  == Get(cfg, "synthetic_macro_proxies", Dict(EmptyMap))
    IN  [ trading_pairs      |-> List(<<pri>> \o (IF IsList(sec) THEN sec[2] ELSE <<>>)),
          risk_per_trade_min |-> Get(rm, "risk_per_trade_min", 30),
          risk_per_trade_max |-> Get(rm, "risk_per_trade_max", 100),
          max_drawdown_limit |-> Get(rm, "max_total_drawdown", 400),
          daily_loss_limit   |-> Get(rm, "daily_loss_limit", 200),
          portfolio_heat_cap |-> Get(rm, "portfolio_heat_cap_weekday", 320),
          max_positions      |-> Get(gp, "max_trades_per_day", 6),
          max_trades_day     |-> Get(gp, "max_trades_per_day", 6),
          execution_tf       |-> Get(gp, "execution_timeframe", "M5"),
          timeframes         |-> List(<< Get(gp, "micro_timeframe", "M1"),
                                         Get(gp, "execution_timeframe", "M5"),
                                         Get(gp, "trend_timeframe", "M15") >>),
          min_confidence     |-> 550,
          atr_period |-> 14, rsi_period |-> 14, rsi_oversold |-> 30, rsi_overbought |-> 70,
          macd_fast |-> 12, macd_slow |-> 26, macd_signal_period |-> 9,
          bb_period |-> 20, bb_std |-> 20,
          use_atr_exit       |-> TRUE,
          atr_multiplier_sl  |-> 15,
          atr_multiplier_tp  |-> 25,
          stop_loss_pips     |-> 20,
          take_profit_pips   |-> 40,
          scoring |-> Dict([ma_cross |-> 20, ma_cross_bonus |-> 8, rsi |-> 20, macd |-> 20,
                            macd_cross_bonus |-> 8, bollinger_bands |-> 15,
                            momentum |-> 10, lim_bonus |-> 15]),
          leverage_enabled        |-> Get(dls, "enabled", TRUE),
          leverage_expansion_mult |-> Get(dls, "expansion_multiplier", 12),
          leverage_low_vol_mult   |-> Get(dls, "low_vol_multiplier", 7),
          leverage_extreme_mult   |-> Get(dls, "extreme_multiplier", 5),
          lim_enabled           |-> Get(lim, "enabled", TRUE),
          lim_tick_weight       |-> Get(lim, "tick_imbalance_weight", 30),
          lim_volume_weight     |-> Get(lim, "volume_spike_weight", 25),
          lim_body_weight       |-> Get(lim, "body_range_weight", 20),
          lim_spread_weight     |-> Get(lim, "spread_weight", 15),
          lim_micro_atr_weight  |-> Get(lim, "micro_atr_weight", 10),
          lim_strong_threshold  |-> Get(lim, "strong_threshold", 60),
          lim_extreme_threshold |-> Get(lim, "extreme_threshold", 80),
          lim_risk_reduction    |-> Get(lim, "risk_reduction_extreme", 70),
          dre_l1_thresh |-> Get(dre, "level_1_threshold", 10),
          dre_l2_thresh |-> Get(dre, "level_2_threshold", 20),
          dre_l3_thresh |-> Get(dre, "level_3_threshold", 30),
          dre_l1_mult   |-> Get(dre, "risk_multiplier_level_1", 8),
          dre_l2_mult   |-> Get(dre, "risk_multiplier_level_2", 6),
          dre_l3_mult   |-> Get(dre, "risk_multiplier_level_3", 4),
          spread_filter_enabled  |-> Get(slo, "enabled", TRUE),
          max_spread_multiplier  |-> Get(slo, "max_spread_multiplier", 18),
          max_micro_atr_spike    |-> Get(slo, "max_micro_atr_spike", 20),
          weekend_shield_enabled |-> Get(ws, "enabled", TRUE),
          weekend_hours_before   |-> Get(ws, "activation_hours_before_close", 4),
          news_block_enabled     |-> Get(sse, "enabled", TRUE),
          news_block_before_min  |-> Get(sse, "block_minutes_before_event", 30),
          news_block_after_min   |-> Get(sse, "block_minutes_after_event", 30),
          dxy_weights            |-> Get(smp, "synthetic_dxy_weights", Dict(EmptyMap)),
          vol_percentile_window  |-> Get(smp, "volatility_percentile_window", 60) ]

LegacyDefaultScoring ==
    Dict([ma_cross |-> 30, ma_cross_bonus |-> 10, rsi |-> 25, macd |-> 25,
          macd_cross_bonus |-> 10, bollinger_bands |-> 15, stochastic |-> 15,
          momentum |-> 10])

NormalizeLegacy(cfg) ==
    LET params    == Get(cfg, "parameters", Dict(EmptyMap))
        entry_cfg == Get(cfg, "entry_conditions", Dict(EmptyMap))
        exit_cfg  == Get(cfg, "exit_strategy", Dict(EmptyMap))
        indic     == Dict(Get(entry_cfg, "momentum_confirmation", Dict(EmptyMap))[2]
                          @@ Get(entry_cfg, "indicators", Dict(EmptyMap))[2])
        rr        == Get(params, "risk_per_trade_range", List(<<100, 200>>))
        tfs       == Get(params, "timeframes", List(<<"M1">>))
    IN  [ trading_pairs |->
              Or(Get(params, "trading_pairs", Null),
                 Or(Get(params, "pairs", Null),
                    Or(Get(cfg, "trading_pairs", Null),
                       Or(Get(cfg, "pairs", Null), List(<<>>))))),
          risk_per_trade_min |-> rr[2][1],
          risk_per_trade_max |-> rr[2][2],
          max_drawdown_limit |-> Get(params, "max_drawdown_limit", 1500),
          daily_loss_limit   |-> 0,
          portfolio_heat_cap |-> rr[2][2] * Get(params, "max_positions", 3),
          max_positions      |-> Get(params, "max_positions", 3),
          max_trades_day     |-> Get(params, "max_positions", 3),
          execution_tf       |-> Or(tfs, List(<<"M1">>))[2][1],
          timeframes         |-> tfs,
          min_confidence     |-> OrNum(Get(entry_cfg, "min_confidence", 0),
                                       Get(params, "min_confidence", 600)),
          atr_period         |-> Get(indic, "atr_period", 14),
          rsi_period         |-> Get(indic, "rsi_period", 14),
          rsi_oversold       |-> Get(indic, "rsi_oversold", 30),
          rsi_overbought     |-> Get(indic, "rsi_overbought", 70),
          macd_fast          |-> Get(indic, "macd_fast", 12),
          macd_slow          |-> Get(indic, "macd_slow", 26),
          macd_signal_period |-> Get(indic, "macd_signal", 9),
          bb_period          |-> Get(indic, "bb_period", 20),
          bb_std             |-> Get(indic, "bb_std_dev", 20),
          use_atr_exit       |-> (Get(exit_cfg, "use_atr", FALSE)
                                  \/ Has(exit_cfg, "atr_multiplier_sl")),
          atr_multiplier_sl  |-> Get(exit_cfg, "atr_multiplier_sl", 15),
          atr_multiplier_tp  |-> Get(exit_cfg, "atr_multiplier_tp", 25),
          stop_loss_pips     |-> _parse_pips(Get(exit_cfg, "stop_loss",
                                                 Get(exit_cfg, "stop_loss_pips", 20))),
          take_profit_pips   |-> _parse_pips(Get(exit_cfg, "take_profit",
                                                 Get(exit_cfg, "take_profit_pips", 40))),
          scoring            |-> Get(entry_cfg, "scoring", LegacyDefaultScoring),
          lim_enabled            |-> FALSE,
          leverage_enabled       |-> FALSE,
          weekend_shield_enabled |-> FALSE,
          news_block_enabled     |-> FALSE,
          spread_filter_enabled  |-> FALSE,
          dxy_weights            |-> Dict(EmptyMap) ]

\* _normalize, when it does not raise
_normalize(cfg, fmt) ==
    IF fmt = "advanced" THEN NormalizeAdvanced(cfg) ELSE NormalizeLegacy(cfg)

\* the built-in default parameters
DefaultNorm ==
    [ trading_pairs |-> List(<<>>), risk_per_trade_min |-> 100, risk_per_trade_max |-> 200,
      max_drawdown_limit |-> 1500, daily_loss_limit |-> 0, portfolio_heat_cap |-> 600,
      max_positions |-> 3, max_trades_day |-> 3, timeframes |-> List(<<"M1">>),
      execution_tf |-> "M1", min_confidence |-> 600, atr_period |-> 14, rsi_period |-> 14,
      rsi_oversold |-> 30, rsi_overbought |-> 70, macd_fast |-> 12, macd_slow |-> 26,
      macd_signal_period |-> 9, bb_period |-> 20, bb_std |-> 20,
      use_atr_exit |-> FALSE, atr_multiplier_sl |-> 15, atr_multiplier_tp |-> 25,
      stop_loss_pips |-> 20, take_profit_pips |-> 40,
      scoring |-> Dict([ma_cross |-> 35, rsi |-> 35, macd |-> 30]),
      lim_enabled |-> FALSE, leverage_enabled |-> FALSE,
      weekend_shield_enabled |-> FALSE, news_block_enabled |-> FALSE,
      spread_filter_enabled |-> FALSE, dxy_weights |-> Dict(EmptyMap) ]

\* StrategyManager.__init__ before any load
NewManager ==
    [ strategy_config |-> Dict(EmptyMap), strategy_name |-> "Default",
      norm |-> EmptyMap, format |-> "legacy" ]

\* a broken fallback: only the parameters are replaced
LoadDefaultKeepsConfig(self) == [self EXCEPT !.norm = DefaultNorm]

_load_default_strategy(self) ==
    [ strategy_config |-> Dict(EmptyMap), strategy_name |-> "Default",
      norm |-> DefaultNorm, format |-> "legacy" ]

\* the except block of load_strategy
LoadFailed(s) == [ret |-> FALSE, raised |-> FALSE, self |-> _load_default_strategy(s)]

\* load_strategy(path) where the file holds the document r.  The assignments
\* made before the failing statement are kept in self when the handler runs.
\* Returns what the call returned (ret), whether it raised, and the object.
load_strategy(self, r) ==
    LET failed(s) == LoadFailed(s)
    IN  IF r[1] \notin {"dict", "list", "str"}
        THEN failed(self)                         \* json.load fails / len(raw) TypeError
        ELSE IF r[1] # "dict" /\ Len(r[2]) = 1
        THEN failed(self)                         \* raw.values() AttributeError
        ELSE
        LET only == IF IsDict(r) /\ Cardinality(DOMAIN r[2]) = 1
                    THEN r[2][CHOOSE k \in DOMAIN r[2] : TRUE] ELSE Null
            cfg  == IF IsDict(r) /\ Cardinality(DOMAIN r[2]) = 1 /\ IsDict(only)
                    THEN only ELSE r
            s1   == [self EXCEPT !.strategy_config = cfg]
        IN  IF ~IsDict(cfg)
            THEN failed(s1)                       \* strategy_config.get AttributeError
            ELSE
            LET s2 == [s1 EXCEPT !.strategy_name = Get(cfg, "strategy_name", "Custom")]
                s3 == [s2 EXCEPT !.format = _detect_format(cfg)]
            IN  IF NormalizeRaises(cfg, s3.format)
                THEN failed(s3)
                ELSE [ret |-> TRUE, raised |-> FALSE,
                      self |-> [s3 EXCEPT !.norm = _normalize(cfg, s3.format)]]

\* StrategyManager(strategy_path): path None or missing -> default
StrategyManager(r) == load_strategy(NewManager, r).self

\* get_strategy_info (the entries the callers read)
get_strategy_info(self) ==
    [ name       |-> self.strategy_name,
      philosophy |-> Get(self.strategy_config, "core_philosophy", Str("N/A")),
      timeframes |-> self.norm.timeframes,
      pairs      |-> self.norm.trading_pairs ]

\* get_risk_parameters
get_risk_parameters(self) ==
    [ risk_per_trade_min |-> self.norm.risk_per_trade_min,
      risk_per_trade_max |-> self.norm.risk_per_trade_max,
      max_leverage       |-> 100,
      max_drawdown_limit |-> self.norm.max_drawdown_limit,
      daily_loss_limit   |-> self.norm.daily_loss_limit,
      max_positions      |-> self.norm.max_positions ]


-----------------------------------------------------------------------------
(* main.py: symbol extraction                                              *)

HiddenDefaultSymbols == List(<<"EURUSD.s", "GBPUSD.s", "USDJPY.s">>)

\* get_symbols_from_strategy(strategy_manager); every malformed shape it can
\* meet raises into its handler, which returns the same default list
get_symbols_from_strategy(self) ==
    LET info == get_strategy_info(self)
        cfg  == self.strategy_config
        par  == Get(cfg, "parameters", Dict(EmptyMap))
        hasP == Has(cfg, "parameters") /\ IsDict(par)
        rootList(k) == Has(cfg, k) /\ IsList(cfg[2][k]) /\ Truthy(cfg[2][k])
    IN  IF Truthy(info.pairs) THEN info.pairs
        ELSE IF ~Truthy(cfg) THEN HiddenDefaultSymbols
        ELSE IF hasP /\ Has(par, "trading_pairs") /\ Truthy(par[2]["trading_pairs"])
             THEN par[2]["trading_pairs"]
        ELSE IF hasP /\ Has(par, "symbols") /\ Truthy(par[2]["symbols"])
             THEN par[2]["symbols"]
        ELSE IF Has(cfg, "symbols") /\ Truthy(cfg[2]["symbols"]) THEN cfg[2]["symbols"]
        ELSE IF Has(cfg, "pairs") /\ Truthy(cfg[2]["pairs"]) THEN cfg[2]["pairs"]
        ELSE IF rootList("trading_pairs") THEN cfg[2]["trading_pairs"]
        ELSE IF rootList("symbols") THEN cfg[2]["symbols"]
        ELSE IF rootList("pairs") THEN cfg[2]["pairs"]
        ELSE IF rootList("instruments") THEN cfg[2]["instruments"]
        ELSE IF rootList("markets") THEN cfg[2]["markets"]
        ELSE HiddenDefaultSymbols

-----------------------------------------------------------------------------
(* Strategy documents of the model                                         *)

\* a one-entry dict, or nothing when the entry is left out
Opt(present, k, v) == IF present THEN k :> v ELSE EmptyMap

PairPlaces ==
    {"none", "empty", "parameters.trading_pairs", "parameters.pairs",
     "parameters.symbols", "trading_pairs", "pairs", "symbols", "instruments"}
RiskShapes == {"absent", "range", "short"}
ConfShapes == {"absent", "entry", "fraction"}

\* a legacy-schema body
LegacyBody(place, risk, conf) ==
    LET syms   == List(<<"EURUSD", "USDJPY">>)
        params == Opt(place = "parameters.trading_pairs", "trading_pairs", syms)
               @@ Opt(place = "empty", "trading_pairs", List(<<>>))
               @@ Opt(place = "parameters.pairs", "pairs", syms)
               @@ Opt(place = "parameters.symbols", "symbols", syms)
               @@ Opt(risk = "range", "risk_per_trade_range", List(<<50, 150>>))
               @@ Opt(risk = "short", "risk_per_trade_range", List(<<50>>))
               @@ Opt(conf = "fraction", "min_confidence", 6)
        entry  == Opt(conf = "entry", "min_confidence", 700)
    IN  Dict(  ("strategy_name" :> "Legacy")
            @@ ("parameters" :> Dict(params))
            @@ ("entry_conditions" :> Dict(entry))
            @@ Opt(place = "trading_pairs", "trading_pairs", syms)
            @@ Opt(place = "pairs", "pairs", syms)
            @@ Opt(place = "symbols", "symbols", syms)
            @@ Opt(place = "instruments", "instruments", syms) )

\* an advanced-schema body, with or without its symbol block
AdvancedBody(withSymbols, risk) ==
    Dict(  ("strategy_name" :> "Quant")
        @@ ("risk_management" :>
               Dict(Opt(risk = "range", "risk_per_trade_min", 50)
                    @@ Opt(risk = "range", "risk_per_trade_max", 150)))
        @@ Opt(withSymbols, "symbol_management",
               Dict("base_symbols" :>
                    Dict(("primary" :> "XAUUSD.s") @@ ("secondary" :> List(<<"EURUSD.s">>)))))
        @@ Opt(risk = "short", "general_parameters", Str("M5")) )

Wrapped(body) == Dict("quant_strategy" :> body)

WellFormedBodies ==
    {LegacyBody(p, r, c) : p \in PairPlaces, r \in RiskShapes, c \in ConfShapes}
    \cup {AdvancedBody(w, r) : w \in BOOLEAN, r \in RiskShapes}

\* documents whose numbers nothing validates: a risk range given upside down
\* (legacy and advanced), a confidence threshold of 150, a negative weight
ReversedRiskLegacy ==
    Dict(  ("strategy_name" :> "Reversed")
        @@ ("parameters" :> Dict(("trading_pairs" :> List(<<"EURUSD">>))
                                 @@ ("risk_per_trade_range" :> List(<<150, 50>>)))) )
ReversedRiskAdvanced ==
    Dict(  ("strategy_name" :> "ReversedQuant")
        @@ ("risk_management" :>
               Dict(("risk_per_trade_min" :> 150) @@ ("risk_per_trade_max" :> 50))) )
NegativeRiskLegacy ==
    Dict(  ("strategy_name" :> "Negative")
        @@ ("parameters" :> Dict(("trading_pairs" :> List(<<"EURUSD">>))
                                 @@ ("risk_per_trade_range" :> List(<<-50, 150>>)))) )
OverConfidentLegacy ==
    Dict(  ("strategy_name" :> "OverConfident")
        @@ ("parameters" :> Dict("trading_pairs" :> List(<<"EURUSD">>)))
        @@ ("entry_conditions" :> Dict("min_confidence" :> 1500)) )
NegativeWeightLegacy ==
    Dict(  ("strategy_name" :> "NegativeWeight")
        @@ ("parameters" :> Dict("trading_pairs" :> List(<<"EURUSD">>)))
        @@ ("entry_conditions" :>
               Dict("scoring" :> Dict(("ma_cross" :> 30) @@ ("rsi" :> -25)))) )
UnvalidatedBodies ==
    {ReversedRiskLegacy, ReversedRiskAdvanced, NegativeRiskLegacy, OverConfidentLegacy,
     NegativeWeightLegacy}

\* a legacy and an advanced document that describe the same pairs, the same
\* risk range and the same confidence threshold (55, the one the advanced
\* schema has)
EquivalentLegacy ==
    Dict(  ("strategy_name" :> "Twin")
        @@ ("parameters" :> Dict(("trading_pairs" :> List(<<"XAUUSD.s", "EURUSD.s">>))
                                 @@ ("risk_per_trade_range" :> List(<<50, 150>>))))
        @@ ("entry_conditions" :> Dict("min_confidence" :> 550)) )
EquivalentAdvanced ==
    Dict(  ("strategy_name" :> "Twin")
        @@ ("risk_management" :>
               Dict(("risk_per_trade_min" :> 50) @@ ("risk_per_trade_max" :> 150)))
        @@ ("symbol_management" :>
               Dict("base_symbols" :>
                    Dict(("primary" :> "XAUUSD.s") @@ ("secondary" :> List(<<"EURUSD.s">>))))) )

\* what the strategy file may hold
Documents ==
    WellFormedBodies
    \cup UnvalidatedBodies
    \cup {EquivalentLegacy, EquivalentAdvanced}
    \cup {Wrapped(b) : b \in WellFormedBodies}
    \cup { Unparsable, Null, List(<<>>), List(<<"EURUSD">>), List(<<"EURUSD", "USDJPY">>),
           Str(""), Str("x"), Str("strategy"), Dict(EmptyMap),
           Dict("parameters" :> Str("EURUSD")),
           Dict("pairs" :> List(<<"EURUSD">>)),
           Dict("only" :> List(<<"EURUSD">>)) }

-----------------------------------------------------------------------------
(* Loading scenario: one document is loaded into a new StrategyManager,    *)
(* then main.py extracts its symbols                                       *)

NoResult == [op |-> "none", ret |-> FALSE, raised |-> FALSE, symbols |-> List(<<>>)]

IdleLoad == raw = Null /\ mgr = NewManager /\ lres = NoResult /\ lpc = "idle"

InitLoad ==
    /\ raw \in Documents
    /\ mgr = NewManager
    /\ lres = NoResult
    /\ lpc = "new"

LoadStrategy ==
    /\ lpc = "new"
    /\ LET r == load_strategy(mgr, raw)
       IN  /\ mgr'  = r.self
           /\ lres' = [NoResult EXCEPT !.op = "load_strategy", !.ret = r.ret,
                                       !.raised = r.raised]
    /\ lpc' = "loaded"
    /\ UNCHANGED raw

GetSymbols ==
    /\ lpc = "loaded"
    /\ lres' = [NoResult EXCEPT !.op = "get_symbols_from_strategy",
                                !.symbols = get_symbols_from_strategy(mgr)]
    /\ lpc' = "symbols"
    /\ UNCHANGED <<raw, mgr>>


-----------------------------------------------------------------------------
(* Bars: the DataFrame handed to analyze.  A frame is its length, its      *)
(* columns, its last two rows and the window statistics the overlays read. *)

NaN      == <<>>
IsNum(v) == v # NaN
Lt(a, b) == IsNum(a) /\ IsNum(b) /\ a[1] < b[1]
Le(a, b) == IsNum(a) /\ IsNum(b) /\ a[1] <= b[1]

RawColumns == {"open", "high", "low", "close", "volume"}

\* the row a complete indicator computation attaches to a bar
BaseRow ==
    [ close |-> <<12000>>,
      ema_fast |-> <<12050>>, ema_slow |-> <<12040>>,
      ma_fast  |-> <<12050>>, ma_slow  |-> <<12040>>,
      rsi |-> <<25>>, macd |-> <<5>>, macd_signal |-> <<3>>,
      bb_upper |-> <<12100>>, bb_lower |-> <<11900>>,
      stoch_k |-> <<15>>, momentum |-> <<2>>, atr |-> <<20>>,
      volume |-> <<150>>, volume_pct |-> <<50>>, body_ratio |-> <<50>> ]
BasePrev ==
    [BaseRow EXCEPT !.ema_fast = <<12030>>, !.ema_slow = <<12035>>,
                    !.ma_fast = <<12030>>, !.ma_slow = <<12035>>,
                    !.macd = <<2>>, !.macd_signal = <<3>>]
\* avg_vol: mean of the last 20 volumes; atr_max: rolling(20).max() of ATR at
\* the last bar; atr_n: ATR values that are not NaN; atr_pct: the share of the
\* ATR window below the current ATR (1/100)
BaseStats == [avg_vol |-> 100, atr_max |-> <<40>>, atr_n |-> 50, atr_pct |-> 50]

RECURSIVE SumSeq(_)
SumSeq(q) == IF q = <<>> THEN 0 ELSE q[1] + SumSeq(Tail(q))

\* prices.diff() with the where(..., 0) of _calc_rsi: the rises (up) or the
\* falls of a series, 0 at the first bar
Moves(prices, up) ==
    [ i \in 1..Len(prices) |->
        IF i = 1 THEN 0
        ELSE IF up THEN Max(prices[i] - prices[i - 1], 0)
        ELSE Max(prices[i - 1] - prices[i], 0) ]

\* the sum of the last period values (rolling(period).mean() times period)
LastSum(q, period) == SumSeq(SubSeq(q, Len(q) - period + 1, Len(q)))

\* _calc_rsi at the last bar, in whole points: NaN before period bars and for
\* 0 / 0; a positive gain over a loss of 0 is inf, and 100 / (1 + inf) is 0
_calc_rsi(prices, period) ==
    IF Len(prices) < period THEN NaN
    ELSE LET gain == LastSum(Moves(prices, TRUE), period)
             loss == LastSum(Moves(prices, FALSE), period)
         IN  IF loss = 0 THEN (IF gain = 0 THEN NaN ELSE <<100>>)
             ELSE <<100 - (100 * loss) \div (gain + loss)>>

\* the closes behind the patterns whose RSI is computed from them: fifteen
\* bars rising by a point each, and fifteen bars at one price
RallyCloses == [i \in 1..15 |-> 11985 + i]
StillCloses == [i \in 1..15 |-> 12000]

\* df['body'] / (df['high'] - df['low']).replace(0, np.nan) of one bar (1/100)
body_ratio(open, high, low, close) ==
    IF high = low THEN NaN
    ELSE <<(100 * (IF close >= open THEN close - open ELSE open - close)) \div (high - low)>>

PatternNames ==
    {"bull", "bear", "flat", "weak", "warmup", "busy", "violent", "zero_atr", "no_atr",
     "rally", "still", "doji"}

Pattern(name) ==
    CASE name = "bull" ->
           [latest |-> BaseRow, prev |-> BasePrev, stats |-> BaseStats]
      [] name = "bear" ->
           [latest |-> [BaseRow EXCEPT !.ema_fast = <<12030>>, !.ma_fast = <<12030>>,
                                       !.rsi = <<75>>, !.macd = <<1>>,
                                       !.stoch_k = <<85>>, !.momentum = <<-2>>],
            prev   |-> [BaseRow EXCEPT !.macd = <<4>>],
            stats  |-> [BaseStats EXCEPT !.atr_pct = 20]]
      [] name = "flat" ->
           [latest |-> [BaseRow EXCEPT !.ema_fast = <<12040>>, !.ma_fast = <<12040>>],
            prev   |-> [BasePrev EXCEPT !.ema_fast = <<12035>>, !.ma_fast = <<12035>>],
            stats  |-> BaseStats]
      [] name = "rally" ->
           [latest |-> [BaseRow EXCEPT !.rsi = _calc_rsi(RallyCloses, DefaultNorm.rsi_period)],
            prev   |-> BasePrev, stats |-> BaseStats]
      [] name = "still" ->
           [latest |-> [BaseRow EXCEPT !.rsi = _calc_rsi(StillCloses, DefaultNorm.rsi_period),
                                       !.momentum = <<0>>],
            prev   |-> BasePrev, stats |-> BaseStats]
      [] name = "doji" ->        \* the last bar opens, peaks, bottoms and closes at 1.2000
           [latest |-> [BaseRow EXCEPT !.body_ratio = body_ratio(12000, 12000, 12000, 12000)],
            prev   |-> BasePrev, stats |-> BaseStats]
      [] name = "weak" ->
           [latest |-> [BaseRow EXCEPT !.ema_fast = NaN, !.ma_fast = NaN, !.rsi = <<55>>,
                                       !.macd = NaN, !.stoch_k = <<50>>,
                                       !.momentum = <<0>>],
            prev   |-> BasePrev, stats |-> BaseStats]
      [] name = "warmup" ->
           [latest |-> [BaseRow EXCEPT !.ema_fast = NaN, !.ema_slow = NaN, !.ma_fast = NaN,
                                       !.ma_slow = NaN, !.rsi = NaN, !.macd = NaN,
                                       !.macd_signal = NaN, !.bb_upper = NaN,
                                       !.bb_lower = NaN, !.stoch_k = NaN,
                                       !.momentum = NaN, !.atr = NaN,
                                       !.volume_pct = NaN, !.body_ratio = NaN],
            prev   |-> [BasePrev EXCEPT !.ema_fast = NaN, !.ma_fast = NaN, !.macd = NaN],
            stats  |-> [BaseStats EXCEPT !.atr_max = NaN, !.atr_n = 0]]
      [] name = "busy" ->
           [latest |-> [BaseRow EXCEPT !.volume = <<300>>],
            prev   |-> BasePrev, stats |-> BaseStats]
      [] name = "violent" ->
           [latest |-> [BaseRow EXCEPT !.volume = <<300>>, !.volume_pct = <<100>>,
                                       !.body_ratio = <<100>>],
            prev   |-> BasePrev,
            stats  |-> [BaseStats EXCEPT !.atr_pct = 90]]
      [] name = "zero_atr" ->
           [latest |-> [BaseRow EXCEPT !.atr = <<0>>],
            prev   |-> BasePrev, stats |-> [BaseStats EXCEPT !.atr_max = <<0>>]]
      [] name = "no_atr" ->
           [latest |-> [BaseRow EXCEPT !.atr = NaN, !.body_ratio = NaN],
            prev   |-> BasePrev,
            stats  |-> [BaseStats EXCEPT !.atr_max = NaN, !.atr_n = 5]]

NoFrame == [kind |-> "none", len |-> 0, cols |-> {}, pattern |-> "warmup"]
Frame(n, cols, pat) == [kind |-> "frame", len |-> n, cols |-> cols, pattern |-> pat]

Latest(df) == Pattern(df.pattern).latest
Prev(df)   == Pattern(df.pattern).prev
Stats(df)  == Pattern(df.pattern).stats

\* c is a column of df and the row's value is not NaN
Present(df, row, c) == c \in df.cols /\ IsNum(row[c])

-----------------------------------------------------------------------------
(* calculate_indicators                                                    *)

\* the keys of entry_conditions.indicators / momentum_confirmation (legacy)
LegacyIndic(self) ==
    LET ec == Get(self.strategy_config, "entry_conditions", Dict(EmptyMap))
    IN  DOMAIN Get(ec, "momentum_confirmation", Dict(EmptyMap))[2]
        \cup DOMAIN Get(ec, "indicators", Dict(EmptyMap))[2]

\* the statements of calculate_indicators in order: the columns each adds,
\* the raw columns it reads, and whether it runs for this strategy and frame
IndicatorSteps(self, df) ==
    LET leg == self.format = "legacy"
        ind == IF leg THEN LegacyIndic(self) ELSE {}
        lim == self.norm.lim_enabled
    IN  << [adds |-> {"ma_fast"},  needs |-> {"close"}, runs |-> leg /\ "ma_fast" \in ind],
           [adds |-> {"ma_slow"},  needs |-> {"close"}, runs |-> leg /\ "ma_slow" \in ind],
           [adds |-> {"ema_fast"}, needs |-> {"close"},
            runs |-> (~leg) \/ "ema_fast" \in ind],
           [adds |-> {"ema_slow"}, needs |-> {"close"},
            runs |-> (~leg) \/ "ema_slow" \in ind],
           [adds |-> {"stoch_k", "stoch_d"}, needs |-> {"low", "high", "close"},
            runs |-> leg /\ "stochastic_period" \in ind],
           [adds |-> {"rsi"}, needs |-> {"close"}, runs |-> TRUE],
           [adds |-> {"macd", "macd_signal", "macd_histogram"}, needs |-> {"close"},
            runs |-> TRUE],
           [adds |-> {"bb_upper", "bb_middle", "bb_lower"}, needs |-> {"close"},
            runs |-> TRUE],
           [adds |-> {"atr"}, needs |-> {"high", "low", "close"}, runs |-> TRUE],
           [adds |-> {"momentum"}, needs |-> {"close"}, runs |-> TRUE],
           [adds |-> {"volume_pct"}, needs |-> {},
            runs |-> lim /\ "volume" \in df.cols /\ df.len >= 20],
           [adds |-> {"body"}, needs |-> {"close", "open"}, runs |-> lim],
           [adds |-> {"body_ratio"}, needs |-> {"high", "low"}, runs |-> lim] >>

\* calculate_indicators(df): the frame it returns and whether its handler ran.
\* A statement that reads a missing column raises KeyError; the columns added
\* before it stay in the copy that the handler returns.
calculate_indicators(self, df) ==
    IF df.kind = "none" THEN [df |-> df, failed |-> TRUE]     \* df.copy() raises
    ELSE
    LET steps == IndicatorSteps(self, df)
        bad   == {i \in 1..Len(steps) : steps[i].runs /\ ~(steps[i].needs \subseteq df.cols)}
        stop  == IF bad = {} THEN Len(steps) + 1
                 ELSE CHOOSE i \in bad : \A j \in bad : i <= j
        added == UNION {steps[i].adds : i \in {j \in 1..(stop - 1) : steps[j].runs}}
    IN  [df |-> [df EXCEPT !.cols = df.cols \cup added], failed |-> bad # {}]

-----------------------------------------------------------------------------
(* Gates                                                                   *)

\* check_weekend_shield: TRUE = trading allowed.  clock = [weekday, hour]
check_weekend_shield(self, clock) ==
    IF ~self.norm.weekend_shield_enabled THEN TRUE
    ELSE IF clock.weekday \in {5, 6} THEN FALSE
    ELSE IF clock.weekday = 4 /\ 22 - clock.hour <= self.norm.weekend_hours_before
         THEN FALSE
    ELSE TRUE

\* check_news_block: TRUE = trading allowed.  news is what the query on the
\* news table does: "no_db" (file missing), "no_rows", "rows", "error"
check_news_block(self, news) ==
    IF ~self.norm.news_block_enabled THEN [pass |-> TRUE, failed |-> FALSE]
    ELSE IF news = "no_db"   THEN [pass |-> TRUE,  failed |-> FALSE]
    ELSE IF news = "error"   THEN [pass |-> TRUE,  failed |-> TRUE]
    ELSE IF news = "rows"    THEN [pass |-> FALSE, failed |-> FALSE]
    ELSE [pass |-> TRUE, failed |-> FALSE]

\* check_spread_filter: TRUE = trading allowed
check_spread_filter(self, current_spread, df) ==
    IF ~self.norm.spread_filter_enabled \/ "atr" \notin df.cols THEN TRUE
    ELSE LET atr == Latest(df).atr
         IN  IF ~IsNum(atr) \/ atr[1] <= 0 THEN TRUE
             ELSE ~(current_spread * 10 > atr[1] * self.norm.max_spread_multiplier)


-----------------------------------------------------------------------------
(* Overlays                                                                *)

\* compute_liquidity_imbalance_score: the score in 1/10000, NaN when a
\* component is NaN (min/max/round keep a NaN first argument)
compute_liquidity_imbalance_score(self, df, current_spread) ==
    LET n == self.norm IN
    IF ~n.lim_enabled \/ df.len < 5 THEN <<5000>>
    ELSE
    LET latest == Latest(df)
        st     == Stats(df)
        hasAtr == "atr" \in df.cols /\ IsNum(latest.atr)
        spike  == IF "volume" \in df.cols
                  THEN <<Min((100 * latest.volume[1]) \div Max(st.avg_vol, 1), 300) \div 3>>
                  ELSE <<0>>
        volw   == IF "volume" \in df.cols THEN n.lim_volume_weight ELSE 0
        volpct == IF "volume_pct" \in df.cols THEN latest.volume_pct ELSE <<50>>
        bodyr  == IF "body_ratio" \in df.cols THEN latest.body_ratio ELSE <<50>>
        body   == IF IsNum(bodyr) THEN <<Min(bodyr[1], 100)>> ELSE NaN
        sprd   == IF hasAtr /\ latest.atr[1] > 0
                  THEN <<Max(0, 100 - (100 * current_spread) \div latest.atr[1])>>
                  ELSE <<50>>
        micro  == IF ~hasAtr THEN <<50>>
                  ELSE IF ~IsNum(st.atr_max) THEN NaN
                  ELSE IF st.atr_max[1] <= 0
                       THEN (IF latest.atr[1] <= 0 THEN <<100>> ELSE <<0>>)
                  ELSE <<100 - Min((100 * latest.atr[1]) \div st.atr_max[1], 100)>>
    IN  IF IsNum(volpct) /\ IsNum(body) /\ IsNum(micro)
        THEN <<Min(Max(  spike[1]  * volw
                       + volpct[1] * n.lim_tick_weight
                       + body[1]   * n.lim_body_weight
                       + sprd[1]   * n.lim_spread_weight
                       + micro[1]  * n.lim_micro_atr_weight, 0), 10000)>>
        ELSE NaN

\* compute_drawdown_risk_multiplier (1/10)
compute_drawdown_risk_multiplier(self, current_equity, peak_equity) ==
    LET n == self.norm IN
    IF "dre_l1_thresh" \notin DOMAIN n \/ peak_equity <= 0 THEN 10
    ELSE LET dd1000 == (peak_equity - current_equity) * 1000     \* dd * peak * 1000
         IN  IF      dd1000 >= n.dre_l3_thresh * peak_equity THEN n.dre_l3_mult
             ELSE IF dd1000 >= n.dre_l2_thresh * peak_equity THEN n.dre_l2_mult
             ELSE IF dd1000 >= n.dre_l1_thresh * peak_equity THEN n.dre_l1_mult
             ELSE 10

\* compute_volatility_risk_multiplier (1/10)
compute_volatility_risk_multiplier(self, df) ==
    LET n == self.norm IN
    IF ~n.leverage_enabled \/ "atr" \notin df.cols THEN 10
    ELSE IF Stats(df).atr_n < 10 THEN 10
    ELSE IF Stats(df).atr_pct > 80 THEN n.leverage_extreme_mult
    ELSE IF Stats(df).atr_pct < 30 THEN n.leverage_low_vol_mult
    ELSE 10

-----------------------------------------------------------------------------
(* Scoring                                                                 *)

\* one fast/slow pair of _evaluate_conditions (trend cross, MACD): the points
\* it gives to each side.  wt is the weight, bonus the cross bonus
CrossPoints(f, s, pf, ps, wt, bonus) ==
    IF f[1] > s[1]
    THEN [buy |-> wt + (IF Le(pf, ps) THEN bonus ELSE 0), sell |-> 0]
    ELSE [buy |-> 0, sell |-> wt + (IF Le(ps, pf) THEN bonus ELSE 0)]

\* _evaluate_conditions(latest, prev): the scores, or raised when w() is
\* called on a scoring table that is not a dict.  df gives the columns.
_evaluate_conditions(self, df, latest, prev) ==
    LET n       == self.norm
        scoring == n.scoring
        P(c)    == Present(df, latest, c)
        \* prev.get(col, 0)
        pv(c)   == IF c \in df.cols THEN prev[c] ELSE <<0>>
        w(key, dflt) == IF IsDict(scoring) THEN Get(scoring, key, dflt) ELSE 0
        none    == [buy |-> 0, sell |-> 0]
        useEma  == "ema_fast" \in df.cols /\ "ema_slow" \in df.cols
                   /\ IsNum(latest.ema_fast) /\ IsNum(latest.ema_slow)
        useMa   == ~useEma /\ "ma_fast" \in df.cols /\ "ma_slow" \in df.cols
                   /\ IsNum(latest.ma_fast) /\ IsNum(latest.ma_slow)
        trend   == IF useEma
                   THEN CrossPoints(latest.ema_fast, latest.ema_slow,
                                    pv("ema_fast"), pv("ema_slow"),
                                    w("ma_cross", 25), w("ma_cross_bonus", 8))
                   ELSE IF useMa
                   THEN CrossPoints(latest.ma_fast, latest.ma_slow,
                                    pv("ma_fast"), pv("ma_slow"),
                                    w("ma_cross", 25), w("ma_cross_bonus", 8))
                   ELSE none
        useRsi  == P("rsi")
        rsiw    == w("rsi", 20)
        rsi     == IF ~useRsi THEN none
                   ELSE IF latest.rsi[1] < n.rsi_oversold   THEN [buy |-> rsiw, sell |-> 0]
                   ELSE IF latest.rsi[1] > n.rsi_overbought THEN [buy |-> 0, sell |-> rsiw]
                   ELSE IF latest.rsi[1] < 50 THEN [buy |-> (rsiw * 4) \div 10, sell |-> 0]
                   ELSE [buy |-> 0, sell |-> (rsiw * 4) \div 10]
        useMacd == P("macd") /\ P("macd_signal")
        macd    == IF useMacd
                   THEN CrossPoints(latest.macd, latest.macd_signal,
                                    pv("macd"), pv("macd_signal"),
                                    w("macd", 20), w("macd_cross_bonus", 8))
                   ELSE none
        useBb   == "bb_upper" \in df.cols /\ "bb_lower" \in df.cols /\ IsNum(latest.bb_upper)
        bbw     == w("bollinger_bands", 15)
        bb      == IF ~useBb THEN none
                   ELSE IF Lt(latest.close, latest.bb_lower) THEN [buy |-> bbw, sell |-> 0]
                   ELSE IF Lt(latest.bb_upper, latest.close) THEN [buy |-> 0, sell |-> bbw]
                   ELSE none
        useSt   == P("stoch_k")
        stw     == w("stochastic", 12)
        stoch   == IF ~useSt THEN none
                   ELSE IF latest.stoch_k[1] < 20 THEN [buy |-> stw, sell |-> 0]
                   ELSE IF latest.stoch_k[1] > 80 THEN [buy |-> 0, sell |-> stw]
                   ELSE none
        useMom  == P("momentum")
        momw    == w("momentum", 10)
        mom     == IF ~useMom THEN none
                   ELSE IF latest.momentum[1] > 0 THEN [buy |-> momw, sell |-> 0]
                   ELSE [buy |-> 0, sell |-> momw]
        called  == useEma \/ useMa \/ useRsi \/ useMacd \/ useBb \/ useSt \/ useMom
    IN  [ raised |-> called /\ ~IsDict(scoring),
          buy    |-> trend.buy + rsi.buy + macd.buy + bb.buy + stoch.buy + mom.buy,
          sell   |-> trend.sell + rsi.sell + macd.sell + bb.sell + stoch.sell + mom.sell ]

-----------------------------------------------------------------------------
(* Exit levels                                                             *)

\* the pip size of the symbols of the model, in points ('XAU', 'GOLD', 'JPY'
\* in the name: 0.01; otherwise 0.0001)
PipValue(symbol) == IF symbol \in {"XAUUSD.s", "USDJPY"} THEN 100 ELSE 1

\* broken exit levels: the fixed pips whatever the ATR configuration
ExitLevelsFixedPips(self, entry, action, symbol, df) ==
    LET n == self.norm
        sl_dist == n.stop_loss_pips * PipValue(symbol) * 10
        tp_dist == n.take_profit_pips * PipValue(symbol) * 10
    IN  IF action = "BUY"
        THEN << entry * 10 - sl_dist, entry * 10 + tp_dist >>
        ELSE << entry * 10 + sl_dist, entry * 10 - tp_dist >>

\* _exit_levels(entry, action, symbol, latest): <<stop_loss, take_profit>> in 1/10 point
_exit_levels(self, entry, action, symbol, df) ==
    LET n   == self.norm
        atr == Latest(df).atr
        useAtr  == n.use_atr_exit /\ "atr" \in df.cols /\ IsNum(atr)
        sl_dist == IF useAtr THEN atr[1] * n.atr_multiplier_sl
                   ELSE n.stop_loss_pips * PipValue(symbol) * 10
        tp_dist == IF useAtr THEN atr[1] * n.atr_multiplier_tp
                   ELSE n.take_profit_pips * PipValue(symbol) * 10
    IN  IF action = "BUY"
        THEN << entry * 10 - sl_dist, entry * 10 + tp_dist >>
        ELSE << entry * 10 + sl_dist, entry * 10 - tp_dist >>


-----------------------------------------------------------------------------
(* StrategyManager.analyze                                                 *)

\* _hold(price, reason)
_hold(self, price, reason) ==
    [ action |-> "HOLD", confidence |-> 0, price |-> price,
      stop_loss |-> NaN, take_profit |-> NaN,          \* no such keys
      strategy |-> self.strategy_name, hold_reason |-> reason,
      lim_score |-> <<0>>, dd_multiplier |-> 10, vol_multiplier |-> 10,
      risk_multiplier |-> 100 ]

\* what a call of analyze did: the signal it returned, the steps it evaluated
\* in order, whether an exception left it (raised), whether its own handler
\* ran (caught), whether a step handled a failure of its own (swallowed)
Returned(signal, calls, swallowed) ==
    [ signal |-> signal, calls |-> calls, raised |-> FALSE, caught |-> FALSE,
      swallowed |-> swallowed ]

\* a broken handler: the exception leaves analyze
AnalyzeFailedReraises(self, calls, swallowed) ==
    [ signal |-> [_hold(self, <<0>>, "") EXCEPT !.action = "none"], calls |-> calls,
      raised |-> TRUE, caught |-> FALSE, swallowed |-> swallowed ]

\* the except block of analyze
AnalyzeFailed(self, calls, swallowed) ==
    [ signal |-> _hold(self, <<0>>, ""), calls |-> calls, raised |-> FALSE,
      caught |-> TRUE, swallowed |-> swallowed ]

\* the gates in the wrong order: spread before news
GateStageSpreadFirst(self, a, df) ==
    LET nb == check_news_block(self, a.news) IN
    IF ~check_weekend_shield(self, a.clock)
    THEN [blocked |-> "weekend_shield", failed |-> FALSE,
          calls |-> <<"check_weekend_shield">>]
    ELSE IF ~check_spread_filter(self, a.spread, df)
    THEN [blocked |-> "spread_too_wide", failed |-> FALSE,
          calls |-> <<"check_weekend_shield", "check_spread_filter">>]
    ELSE IF ~nb.pass
    THEN [blocked |-> "news_block", failed |-> nb.failed,
          calls |-> <<"check_weekend_shield", "check_spread_filter", "check_news_block">>]
    ELSE [blocked |-> "", failed |-> nb.failed,
          calls |-> <<"check_weekend_shield", "check_spread_filter", "check_news_block">>]

\* Gate 1..3 of analyze: the reason of the first gate that blocks ("" when
\* none does), the checks evaluated, and whether a check handled a failure
GateStage(self, a, df) ==
    LET nb == check_news_block(self, a.news) IN
    IF ~check_weekend_shield(self, a.clock)
    THEN [blocked |-> "weekend_shield", failed |-> FALSE,
          calls |-> <<"check_weekend_shield">>]
    ELSE IF ~nb.pass
    THEN [blocked |-> "news_block", failed |-> nb.failed,
          calls |-> <<"check_weekend_shield", "check_news_block">>]
    ELSE IF ~check_spread_filter(self, a.spread, df)
    THEN [blocked |-> "spread_too_wide", failed |-> nb.failed,
          calls |-> <<"check_weekend_shield", "check_news_block", "check_spread_filter">>]
    ELSE [blocked |-> "", failed |-> nb.failed,
          calls |-> <<"check_weekend_shield", "check_news_block", "check_spread_filter">>]

\* a broken adjustment: the bonus of the strong band goes to the buy side only
LimAdjustBuyOnly(self, lim_score, buy, sell) ==
    LET n == self.norm IN
    IF ~n.lim_enabled \/ ~IsNum(lim_score) THEN [buy |-> buy, sell |-> sell]
    ELSE IF lim_score[1] >= n.lim_extreme_threshold * 100
    THEN [buy  |-> (buy  * n.lim_risk_reduction) \div 100,
          sell |-> (sell * n.lim_risk_reduction) \div 100]
    ELSE IF lim_score[1] >= n.lim_strong_threshold * 100
    THEN [buy  |-> buy + (Get(n.scoring, "lim_bonus", 0) * lim_score[1]) \div 10000,
          sell |-> sell]
    ELSE [buy |-> buy, sell |-> sell]

\* the LIM adjustment of the scores
LimAdjust(self, lim_score, buy, sell) ==
    LET n == self.norm IN
    IF ~n.lim_enabled \/ ~IsNum(lim_score) THEN [buy |-> buy, sell |-> sell]
    ELSE IF lim_score[1] >= n.lim_extreme_threshold * 100
    THEN [buy  |-> (buy  * n.lim_risk_reduction) \div 100,
          sell |-> (sell * n.lim_risk_reduction) \div 100]
    ELSE IF lim_score[1] >= n.lim_strong_threshold * 100
    THEN LET bonus == (Get(n.scoring, "lim_bonus", 0) * lim_score[1]) \div 10000
         IN  [buy |-> buy + bonus, sell |-> sell + bonus]
    ELSE [buy |-> buy, sell |-> sell]

\* a broken decision: the drawdown multiplier scales the scores
DecisionScaledByRisk(self, a, df, buy_score, sell_score, lim_score, dd_mult, vol_mult) ==
    LET b == (buy_score * dd_mult) \div 10
        s == (sell_score * dd_mult) \div 10
        base == [_hold(self, Latest(df).close, "") EXCEPT
                    !.lim_score = lim_score, !.dd_multiplier = dd_mult,
                    !.vol_multiplier = vol_mult, !.risk_multiplier = dd_mult * vol_mult]
    IN  IF b > s /\ b * 10 >= self.norm.min_confidence
        THEN [base EXCEPT !.action = "BUY", !.confidence = b]
        ELSE IF s > b /\ s * 10 >= self.norm.min_confidence
        THEN [base EXCEPT !.action = "SELL", !.confidence = s]
        ELSE base

\* a broken signal: the volatility multiplier is left out of risk_multiplier
RiskMultiplierDrawdownOnly(dd_mult, vol_mult) == dd_mult * 10

\* 'risk_multiplier': dd_mult * vol_mult  (1/10 * 1/10 = 1/100)
RiskMultiplier(dd_mult, vol_mult) == dd_mult * vol_mult

\* a decision that lets equal scores buy
DecisionTieBuys(self, a, df, buy_score, sell_score, lim_score, dd_mult, vol_mult) ==
    LET min_conf == self.norm.min_confidence
        price    == Latest(df).close
        signal   == [ action |-> "HOLD", confidence |-> 0, price |-> price,
                      stop_loss |-> NaN, take_profit |-> NaN,
                      strategy |-> self.strategy_name, hold_reason |-> "",
                      lim_score |-> lim_score, dd_multiplier |-> dd_mult,
                      vol_multiplier |-> vol_mult,
                      risk_multiplier |-> RiskMultiplier(dd_mult, vol_mult) ]
        exits(act) == _exit_levels(self, price[1], act, a.symbol, df)
    IN  IF buy_score >= sell_score /\ buy_score * 10 >= min_conf
        THEN [signal EXCEPT !.action = "BUY", !.confidence = buy_score,
                            !.stop_loss = <<exits("BUY")[1]>>,
                            !.take_profit = <<exits("BUY")[2]>>]
        ELSE IF sell_score > buy_score /\ sell_score * 10 >= min_conf
        THEN [signal EXCEPT !.action = "SELL", !.confidence = sell_score,
                            !.stop_loss = <<exits("SELL")[1]>>,
                            !.take_profit = <<exits("SELL")[2]>>]
        ELSE signal

\* the decision of analyze: the signal dict and its update for BUY / SELL
Decision(self, a, df, buy_score, sell_score, lim_score, dd_mult, vol_mult) ==
    LET min_conf == self.norm.min_confidence
        price    == Latest(df).close
        signal   == [ action |-> "HOLD", confidence |-> 0, price |-> price,
                      stop_loss |-> NaN, take_profit |-> NaN,
                      strategy |-> self.strategy_name, hold_reason |-> "",
                      lim_score |-> lim_score, dd_multiplier |-> dd_mult,
                      vol_multiplier |-> vol_mult,
                      risk_multiplier |-> RiskMultiplier(dd_mult, vol_mult) ]
        exits(act) == _exit_levels(self, price[1], act, a.symbol, df)
    IN  IF buy_score > sell_score /\ buy_score * 10 >= min_conf
        THEN [signal EXCEPT !.action = "BUY", !.confidence = buy_score,
                            !.stop_loss = <<exits("BUY")[1]>>,
                            !.take_profit = <<exits("BUY")[2]>>]
        ELSE IF sell_score > buy_score /\ sell_score * 10 >= min_conf
        THEN [signal EXCEPT !.action = "SELL", !.confidence = sell_score,
                            !.stop_loss = <<exits("SELL")[1]>>,
                            !.take_profit = <<exits("SELL")[2]>>]
        ELSE signal

\* analyze from 'Decision' on: the signal and the exit levels
AnalyzeDecision(self, a, df, calls, sw, buy_score, sell_score, lim_score, dd_mult, vol_mult) ==
    IF "close" \notin df.cols THEN AnalyzeFailed(self, calls, sw)     \* latest['close']
    ELSE
    LET signal == Decision(self, a, df, buy_score, sell_score, lim_score, dd_mult, vol_mult)
    IN  Returned(signal,
                 calls \o (IF signal.action # "HOLD" THEN <<"_exit_levels">> ELSE <<>>), sw)

\* analyze from 'LIM Adjustment' on, with the scores ev of _evaluate_conditions
\* and the score lim_score of compute_liquidity_imbalance_score
AnalyzeOverlays(self, a, df, calls, sw, ev, lim_score) ==
    IF ev.raised THEN AnalyzeFailed(self, calls, sw)                  \* scoring.get
    ELSE
    LET adj     == LimAdjust(self, lim_score, ev.buy, ev.sell)
        useDd   == a.equity.current > 0 /\ a.equity.peak > 0
        dd_mult == IF useDd
                   THEN compute_drawdown_risk_multiplier(self, a.equity.current,
                                                         a.equity.peak)
                   ELSE 10
        c3 == calls \o <<"compute_liquidity_imbalance_score">>
                    \o (IF useDd THEN <<"compute_drawdown_risk_multiplier">> ELSE <<>>)
                    \o <<"compute_volatility_risk_multiplier">>
    IN  AnalyzeDecision(self, a, df, c3, sw, adj.buy, adj.sell, lim_score, dd_mult,
                        compute_volatility_risk_multiplier(self, df))

\* analyze from 'Base Scoring' on, with the outcome g of the gates
AnalyzeScoring(self, a, ci, g) ==
    LET df == ci.df
        c1 == <<"calculate_indicators">> \o g.calls
        sw == ci.failed \/ g.failed
    IN  IF g.blocked # ""
        THEN IF "close" \notin df.cols THEN AnalyzeFailed(self, c1, sw) \* latest['close']
             ELSE Returned(_hold(self, Latest(df).close, g.blocked), c1, sw)
        ELSE AnalyzeOverlays(self, a, df, c1 \o <<"_evaluate_conditions">>, sw,
                             _evaluate_conditions(self, df, Latest(df), Prev(df)),
                             compute_liquidity_imbalance_score(self, df, a.spread))

\* analyze after calculate_indicators returned ci
AnalyzeGates(self, a, ci) ==
    LET df == ci.df
        c0 == <<"calculate_indicators">>
    IN  IF df.kind = "none" THEN AnalyzeFailed(self, c0, ci.failed)       \* len(None)
        ELSE IF df.len < 2
        THEN IF df.len = 0 THEN Returned(_hold(self, <<0>>, ""), c0, ci.failed)
             ELSE IF "close" \notin df.cols
             THEN AnalyzeFailed(self, c0, ci.failed)                      \* KeyError 'close'
             ELSE Returned(_hold(self, Latest(df).close, ""), c0, ci.failed)
        ELSE AnalyzeScoring(self, a, ci, GateStage(self, a, df))

\* analyze(symbol, df, current_spread, current_equity, peak_equity); the
\* clock and the news table are what the gates read from the environment
analyze(self, a) == AnalyzeGates(self, a, calculate_indicators(self, a.df))

-----------------------------------------------------------------------------
(* Analysis scenario: one call of analyze on a loaded strategy, then the   *)
(* same call again with another equity                                     *)

StrategyIds ==
    {"default", "legacy", "legacy_ema", "legacy_list_scoring", "legacy_partial",
     "legacy_balanced", "advanced", "advanced_inverted_dre"}

\* the strategy file behind each id
StrategyDoc(id) ==
    CASE id = "default" -> Unparsable
      [] id = "legacy"  -> LegacyBody("parameters.trading_pairs", "range", "absent")
      [] id = "legacy_ema" ->
           Dict(  ("strategy_name" :> "LegacyEma")
               @@ ("parameters" :> Dict("trading_pairs" :> List(<<"EURUSD">>)))
               @@ ("entry_conditions" :>
                      Dict("indicators" :>
                           Dict(("ema_fast" :> 12) @@ ("ema_slow" :> 26)
                                @@ ("stochastic_period" :> 14))))
               @@ ("exit_strategy" :> Dict("use_atr" :> TRUE)) )
      [] id = "legacy_list_scoring" ->
           Dict(  ("strategy_name" :> "LegacyList")
               @@ ("parameters" :> Dict("trading_pairs" :> List(<<"EURUSD">>)))
               @@ ("entry_conditions" :> Dict("scoring" :> List(<<>>))) )
      [] id = "legacy_partial" ->
           Dict(  ("strategy_name" :> "LegacyPartial")
               @@ ("parameters" :> Dict("trading_pairs" :> List(<<"EURUSD">>)))
               @@ ("entry_conditions" :>
                      Dict(("indicators" :> Dict(("ema_fast" :> 12) @@ ("ema_slow" :> 26)))
                           @@ ("scoring" :> Dict("ma_cross" :> 30)))) )
      [] id = "legacy_balanced" ->      \* a crossing trend weighs as much as the RSI
           Dict(  ("strategy_name" :> "LegacyBalanced")
               @@ ("parameters" :> Dict("trading_pairs" :> List(<<"EURUSD">>)))
               @@ ("entry_conditions" :>
                      Dict(("indicators" :> Dict(("ema_fast" :> 12) @@ ("ema_slow" :> 26)
                                                 @@ ("rsi_period" :> 14)))
                           @@ ("scoring" :>
                                  Dict(("ma_cross" :> 62) @@ ("ma_cross_bonus" :> 8)
                                       @@ ("rsi" :> 70) @@ ("macd" :> 0)
                                       @@ ("macd_cross_bonus" :> 0)
                                       @@ ("bollinger_bands" :> 0) @@ ("stochastic" :> 0)
                                       @@ ("momentum" :> 0))))) )
      [] id = "advanced" -> AdvancedBody(TRUE, "range")
      [] id = "advanced_inverted_dre" ->
           Dict(  ("drawdown_recovery_engine" :>
                      Dict(("risk_multiplier_level_1" :> 4)
                           @@ ("risk_multiplier_level_3" :> 8)))
               @@ AdvancedBody(TRUE, "range")[2] )
      [] id = "null_philosophy" ->
           Dict(  ("strategy_name" :> "NullPhilosophy")
               @@ ("core_philosophy" :> Null)
               @@ ("parameters" :> Dict("trading_pairs" :> List(<<"USDJPY">>))) )
      [] id = "unlisted" ->
           Dict(  ("strategy_name" :> "Unlisted")
               @@ ("parameters" :> Dict("trading_pairs" :> List(<<"GBPUSD">>))) )
      [] id = "anti_martingale" ->
           Dict(  ("strategy_name" :> "AntiMartingale")
               @@ ("parameters" :>
                      Dict(("trading_pairs" :> List(<<"EURUSD">>))
                           @@ ("max_positions" :> 1)
                           @@ ("risk_per_trade_range" :> List(<<50, 150>>))))
               @@ ("unique_features" :>
                      Dict("anti_martingale_progression" :>
                           Dict(("consecutive_wins_trigger" :> 2)
                                @@ ("position_size_increase" :> 5)
                                @@ ("max_position_size_multiplier" :> 40)
                                @@ ("recovery_extra_risk_after_loss" :> 50)))) )

\* the managers of the model, each loaded once from its file
Managers ==
    [ id \in StrategyIds \cup {"anti_martingale", "null_philosophy", "unlisted"} |->
          StrategyManager(StrategyDoc(id)) ]
ManagerFor(id) == Managers[id]

Symbols  == {"EURUSD", "XAUUSD.s"}
Clocks   == { [weekday |-> 2, hour |-> 10], [weekday |-> 4, hour |-> 19],
              [weekday |-> 5, hour |-> 10] }
NewsStates == {"no_db", "no_rows", "rows", "error"}
Spreads  == {10, 50}
Equities == { [current |-> 0, peak |-> 0], [current |-> 10000, peak |-> 10000],
              [current |-> 9850, peak |-> 10000], [current |-> 9600, peak |-> 10000] }

\* the number of bars main.py asks for
BarCount == 100

ColumnSets == { RawColumns, RawColumns \ {"high", "low"}, RawColumns \ {"close"} }

Frames ==
    {NoFrame, Frame(0, RawColumns, "warmup"), Frame(1, RawColumns, "bull"),
     Frame(1, RawColumns \ {"close"}, "bull")}
    \cup {Frame(BarCount, c, p) : c \in ColumnSets, p \in PatternNames}

Requests ==
    [ strategy : StrategyIds, symbol : Symbols, df : Frames, clock : Clocks,
      news : NewsStates, spread : Spreads, equity : Equities ]

NoRequest ==
    [ strategy |-> "default", symbol |-> "EURUSD", df |-> NoFrame,
      clock |-> [weekday |-> 2, hour |-> 10], news |-> "no_db", spread |-> 10,
      equity |-> [current |-> 0, peak |-> 0] ]

NoOut == [ signal |-> _hold(NewManager, <<0>>, ""), calls |-> <<>>, raised |-> FALSE,
           caught |-> FALSE, swallowed |-> FALSE ]

IdleAnalyze == req = NoRequest /\ out = NoOut /\ out2 = NoOut /\ apc = "idle"

InitAnalyze ==
    /\ req \in Requests
    /\ out = NoOut
    /\ out2 = NoOut
    /\ apc = "ready"

\* signal = strategy_manager.analyze(symbol, df, spread, equity, peak)
Analyze ==
    /\ apc = "ready"
    /\ out' = analyze(ManagerFor(req.strategy), req)
    /\ apc' = "done"
    /\ UNCHANGED <<req, out2>>

\* the same call with another account equity; req.equity becomes the new one
AnalyzeAgain ==
    /\ apc = "done"
    /\ \E e \in Equities \ {req.equity} :
          /\ out2' = out
          /\ out'  = analyze(ManagerFor(req.strategy), [req EXCEPT !.equity = e])
          /\ req'  = [req EXCEPT !.equity = e]
    /\ apc' = "again"


-----------------------------------------------------------------------------
(* TradeExecutor.  Money in account currency; the risk fraction that sizes *)
(* an order in 1/20000000 (RiskUnit per 1/10000); lots in 1/100; prices    *)
(* and distances in 1/10 point.                                            *)

\* round(), which rounds a tie to the even neighbour: n / d for n >= 0, d > 0
RoundHalfEven(n, d) ==
    LET q == n \div d
        r == n % d
    IN  IF 2 * r < d THEN q
        ELSE IF 2 * r > d THEN q + 1
        ELSE IF q % 2 = 0 THEN q ELSE q + 1

RECURSIVE Pow10(_)
Pow10(k) == IF k <= 0 THEN 1 ELSE 10 * Pow10(k - 1)

\* round(v, digits) of a price held in 1/10 point (5 decimals)
RoundDigits(v, digits) ==
    LET unit == Pow10(5 - digits) IN RoundHalfEven(v, unit) * unit

RECURSIVE SumProfit(_)
SumProfit(ps) == IF ps = <<>> THEN 0 ELSE ps[1].profit + SumProfit(Tail(ps))

\* the symbol the executor trades in the model, as MT5 describes it
ExecSymbol == "EURUSD"
SymbolInfo ==
    [ digits |-> 5, trade_tick_value |-> 1, trade_tick_size |-> 1,
      volume_min |-> 1, volume_max |-> 10000, volume_step |-> 1 ]
\* mt5.symbol_info(symbol): the contract of each symbol of the terminal (lots
\* in 1/100).  US30 trades in steps of 0.10 lot; XAGUSD has a minimum and a
\* maximum that are no multiples of its step; BTCUSD reports no tick value
\* and ETHUSD no tick size
SymbolInfoOf(symbol) ==
    CASE symbol = "US30" ->
           [SymbolInfo EXCEPT !.volume_min = 10, !.volume_max = 100, !.volume_step = 10]
      [] symbol = "XAGUSD" ->
           [SymbolInfo EXCEPT !.volume_min = 5, !.volume_max = 48, !.volume_step = 10]
      [] symbol = "BTCUSD" -> [SymbolInfo EXCEPT !.trade_tick_value = 0]
      [] symbol = "ETHUSD" -> [SymbolInfo EXCEPT !.trade_tick_size = 0]
      [] OTHER -> SymbolInfo
TickInfo == [ask |-> 120010, bid |-> 119990]

\* what the terminal answers during one call: positions_get / account_info
\* answer or return None, symbol_info finds the symbol or not, visible or
\* not, selectable or not, symbol_info_tick answers or returns None, and
\* order_send returns DONE, another retcode, or None
GoodReply ==
    [ positions_get |-> TRUE, account_info |-> TRUE, account_info_sizing |-> TRUE,
      symbol |-> "ok", tick |-> TRUE, order |-> "DONE" ]
BrokerReplies ==
    { GoodReply,
      [GoodReply EXCEPT !.order = "REJECTED"], [GoodReply EXCEPT !.order = "none"],
      [GoodReply EXCEPT !.symbol = "missing"], [GoodReply EXCEPT !.symbol = "hidden"],
      [GoodReply EXCEPT !.symbol = "unselectable"], [GoodReply EXCEPT !.tick = FALSE],
      [GoodReply EXCEPT !.positions_get = FALSE],
      [GoodReply EXCEPT !.account_info = FALSE],
      [GoodReply EXCEPT !.account_info_sizing = FALSE],
      [GoodReply EXCEPT !.account_info = FALSE, !.account_info_sizing = FALSE] }

ExecStrategyIds == {"none", "legacy", "anti_martingale"}

\* the strategy manager the executor holds ("none": no manager)
ManagerOf(self) == ManagerFor(self.strategy_manager)

\* _refresh_risk_params
_refresh_risk_params(self) ==
    IF self.strategy_manager # "none"
    THEN LET rp == get_risk_parameters(ManagerOf(self))
         IN  [self EXCEPT !.risk_per_trade_min = rp.risk_per_trade_min,
                          !.risk_per_trade_max = rp.risk_per_trade_max,
                          !.max_leverage       = rp.max_leverage,
                          !.max_drawdown_limit = rp.max_drawdown_limit,
                          !.max_positions      = rp.max_positions]
    ELSE [self EXCEPT !.risk_per_trade_min = 100, !.risk_per_trade_max = 200,
                      !.max_leverage = 100, !.max_drawdown_limit = 1500,
                      !.max_positions = 3]

\* refresh_from_strategy
refresh_from_strategy(self) == _refresh_risk_params(self)

\* TradeExecutor.__init__(broker_config, trading_config, strategy_manager)
TradeExecutor(max_daily_loss, strategy_manager) ==
    _refresh_risk_params(
        [ strategy_manager |-> strategy_manager, max_daily_loss |-> max_daily_loss,
          risk_per_trade_min |-> 0, risk_per_trade_max |-> 0, max_leverage |-> 0,
          max_drawdown_limit |-> 0, max_positions |-> 0,
          daily_pnl |-> 0, consecutive_wins |-> 0, consecutive_losses |-> 0 ])

\* one step of risk_per_trade (1/10000) in the unit of the final risk fraction:
\* halves (the middle tier), tenths (the streak multiplier), hundredths
\* (risk_multiplier)
RiskUnit == 2 * 10 * 100

\* a sizing without the cap
NoHardCap(risk_pct, risk_per_trade_max) == risk_pct

\* Hard cap: min(risk_pct, self.risk_per_trade_max)
HardCap(risk_pct, risk_per_trade_max) == Min(risk_pct, risk_per_trade_max * RiskUnit)

\* unique_features.anti_martingale_progression of the strategy ({} without
\* a manager)
AntiMartingale(self) ==
    LET cfg == IF self.strategy_manager # "none"
               THEN ManagerOf(self).strategy_config ELSE Dict(EmptyMap)
    IN  Get(Get(cfg, "unique_features", Dict(EmptyMap)),
            "anti_martingale_progression", Dict(EmptyMap))

\* the anti-martingale multiplier of the call (1/10; 10 when the wins are
\* below the trigger or the strategy has no progression)
WinMultiplier(self, am) ==
    LET trigger  == Get(am, "consecutive_wins_trigger", 3)
        increase == Get(am, "position_size_increase", 5)                 \* 1/10
        max_mult == Get(am, "max_position_size_multiplier", 40)          \* 1/10
    IN  IF Truthy(am) /\ self.consecutive_wins >= trigger
        THEN Min(10 + increase * (self.consecutive_wins - trigger + 1), max_mult)
        ELSE 10

\* the recovery increment of the call (1/10000; 0 when there is none)
RecoveryIncrement(self, am) ==
    LET recovery == Get(am, "recovery_extra_risk_after_loss", 0)
    IN  IF Truthy(am) /\ self.consecutive_losses > 0 /\ recovery > 0
        THEN recovery ELSE 0

\* the risk fraction of calculate_position_size, up to and with the hard cap;
\* am is the anti-martingale block
RiskWith(self, signal, am) ==
    LET confidence == signal.confidence
        base  == IF confidence >= 80 THEN 2 * self.risk_per_trade_max
                 ELSE IF confidence >= 65
                 THEN self.risk_per_trade_min + self.risk_per_trade_max
                 ELSE 2 * self.risk_per_trade_min                        \* 1/20000
        mult  == WinMultiplier(self, am)
        extra == RecoveryIncrement(self, am) * 20
    IN  HardCap((base * mult + extra) * signal.risk_multiplier, self.risk_per_trade_max)

RiskFraction(self, signal) == RiskWith(self, signal, AntiMartingale(self))

\* _min_lot
_min_lot(symbol) == SymbolInfoOf(symbol).volume_min

\* round(a / (d1 * d2)) for a >= 0, d1 > 0, d2 > 0, without the product d1 * d2
RoundRatio(a, d1, d2) ==
    LET q == (a \div d1) \div d2
        t == (2 * q + 1) * d2            \* a / (d1 * d2) - q against 1/2
    IN  IF (2 * a) \div d1 < t THEN q
        ELSE IF (2 * a) \div d1 = t /\ (2 * a) % d1 = 0
        THEN (IF q % 2 = 0 THEN q ELSE q + 1)
        ELSE q + 1

\* calculate_position_size from 'risk_amount = balance * risk_pct' on
LotFor(br, symbol, entry_price, stop_loss, risk_pct) ==
    LET sl_distance == IF entry_price >= stop_loss THEN entry_price - stop_loss
                       ELSE stop_loss - entry_price
        si   == SymbolInfoOf(symbol)
        \* lot = balance * risk_pct / (sl_distance / tick_size * tick_value),
        \* in 1/100: num / (unit * den)
        num  == br.account.balance * risk_pct * si.trade_tick_size
        unit == 100 * RiskUnit
        den  == sl_distance * si.trade_tick_value
        whole == (num \div unit) \div den
    IN  IF sl_distance <= 0 \/ si.trade_tick_size <= 0 \/ si.trade_tick_value <= 0
        THEN [lot |-> _min_lot(symbol), risk |-> <<risk_pct>>]
        ELSE [ lot  |-> IF whole < si.volume_min
                        THEN RoundHalfEven(si.volume_min, si.volume_step) * si.volume_step
                        ELSE IF whole > si.volume_max
                                \/ (whole = si.volume_max
                                    /\ ~(num \div unit = si.volume_max * den
                                         /\ num % unit = 0))
                        THEN RoundHalfEven(si.volume_max, si.volume_step) * si.volume_step
                        ELSE RoundRatio(num, unit, den * si.volume_step) * si.volume_step,
               risk |-> <<risk_pct>> ]

\* calculate_position_size(symbol, entry_price, stop_loss, signal): the lot
\* and the risk fraction it used (NaN when the minimum lot is returned
\* before a risk fraction is computed)
calculate_position_size(self, br, reply, symbol, entry_price, stop_loss, signal) ==
    IF ~reply.account_info_sizing
    THEN [lot |-> _min_lot(symbol), risk |-> NaN]
    ELSE LotFor(br, symbol, entry_price, stop_loss, RiskFraction(self, signal))

\* what a call of execute_signal did: its return value, whether
\* calculate_position_size was invoked, whether order_send was called, the
\* volume of the request and the risk fraction behind it
ExecOutcome(ret, sized, sent, lot, risk) ==
    [ret |-> ret, sized |-> sized, sent |-> sent, lot |-> lot, risk |-> risk]

\* execute_signal from order_send on, with the lot of calculate_position_size
OrderSent(reply, size) ==
    ExecOutcome(reply.order = "DONE", TRUE, TRUE, <<size.lot>>, size.risk)

\* execute_signal(symbol, signal) against the broker state br
execute_signal(self, br, reply, symbol, signal) ==
    LET total_count == IF reply.positions_get THEN Len(br.positions) ELSE 0
        skip    == ExecOutcome(FALSE, FALSE, FALSE, NaN, NaN)
        balance == br.account.balance
        equity  == br.account.equity
    IN
    IF total_count >= self.max_positions THEN skip                       \* Gate 1
    ELSE IF self.max_daily_loss > 0 /\ self.daily_pnl <= -self.max_daily_loss
    THEN skip                                                            \* Gate 2
    ELSE IF reply.account_info /\ balance > 0
            /\ (balance - equity) * 10000 >= self.max_drawdown_limit * balance
    THEN skip                                                            \* Gate 3
    ELSE IF reply.symbol \in {"missing", "unselectable"} THEN skip
    ELSE IF signal.action \notin {"BUY", "SELL"} THEN skip
    ELSE IF ~reply.tick THEN skip                  \* None.ask raises, handler
    ELSE IF ~IsNum(signal.stop_loss) \/ ~IsNum(signal.take_profit) THEN skip
    ELSE
    LET price == IF signal.action = "BUY" THEN TickInfo.ask ELSE TickInfo.bid
        sl    == RoundDigits(signal.stop_loss[1], SymbolInfoOf(symbol).digits)
    IN  OrderSent(reply,
                  calculate_position_size(self, br, reply, symbol, price, sl, signal))

\* a close that counts a failed close as well
CloseCountsEveryResult(self, profit, retcode) ==
    IF profit > 0
    THEN [self EXCEPT !.consecutive_wins = @ + 1, !.consecutive_losses = 0]
    ELSE [self EXCEPT !.consecutive_losses = @ + 1, !.consecutive_wins = 0]

\* a close_position that leaves the other streak standing
CloseKeepsOtherStreak(self, profit, retcode) ==
    IF retcode = "DONE"
    THEN IF profit > 0
         THEN [self EXCEPT !.consecutive_wins = @ + 1]
         ELSE [self EXCEPT !.consecutive_losses = @ + 1]
    ELSE self

\* close_position(position): the executor after the broker answered retcode
\* ("none": order_send returned None, the handler catches the AttributeError)
close_position(self, profit, retcode) ==
    IF retcode = "DONE"
    THEN IF profit > 0
         THEN [self EXCEPT !.consecutive_wins = @ + 1, !.consecutive_losses = 0]
         ELSE [self EXCEPT !.consecutive_losses = @ + 1, !.consecutive_wins = 0]
    ELSE self

\* a manage_positions that books no loss when nothing is open
ManagePositionsClearsWhenFlat(self, br, answered) ==
    IF ~answered THEN self
    ELSE [self EXCEPT !.daily_pnl = SumProfit(br.positions)]

\* manage_positions: daily_pnl becomes the sum of the open profits unless
\* positions_get returns nothing
manage_positions(self, br, answered) ==
    IF ~answered \/ br.positions = <<>> THEN self
    ELSE [self EXCEPT !.daily_pnl = SumProfit(br.positions)]


-----------------------------------------------------------------------------
(* Executor scenario: an executor, the broker's account and positions, and *)
(* the calls main.py and the dashboard make on the executor                *)

MaxOpen   == 1      \* open positions the broker holds at most
MaxStreak == 2      \* closes counted in a row at most

Profits  == {-60, 30}
Accounts == { [balance |-> 1000, equity |-> 1000], [balance |-> 1000, equity |-> 800] }
DailyLossLimits == {0, 50}

\* a signal as analyze builds it
Order(action, confidence, risk_multiplier, stop_loss, take_profit) ==
    [_hold(NewManager, <<12000>>, "") EXCEPT
        !.action = action, !.confidence = confidence,
        !.risk_multiplier = risk_multiplier,
        !.stop_loss = stop_loss, !.take_profit = take_profit]

ExecSignals ==
    { Order("BUY", c, 100, <<119700>>, <<120500>>) : c \in {60, 70, 86} }
    \cup { Order("BUY", 86, m, <<119700>>, <<120500>>) : m \in {40, 250} }
    \cup { Order("SELL", 70, 100, <<120300>>, <<119500>>),
           Order("BUY", 86, 100, NaN, NaN),
           Order("BUY", 86, 100, <<120010>>, <<120500>>),
           _hold(NewManager, <<12000>>, "") }

\* the calls of execute_signal: every signal with a terminal that answers,
\* and one signal with every way the terminal fails
ExecCalls ==
    { <<signal, GoodReply>> : signal \in ExecSignals }
    \cup { <<Order("BUY", 70, 100, <<119700>>, <<120500>>), reply>> : reply \in BrokerReplies }

NoLast ==
    [ op |-> "none", ret |-> FALSE, sized |-> FALSE, sent |-> FALSE, lot |-> NaN,
      risk |-> NaN, action |-> "HOLD", retcode |-> "none", profit |-> 0 ]

IdleExec ==
    /\ te = TradeExecutor(0, "none")
    /\ broker = [positions |-> <<>>, account |-> [balance |-> 0, equity |-> 0]]
    /\ last = NoLast

InitExec ==
    /\ \E m \in DailyLossLimits, id \in ExecStrategyIds : te = TradeExecutor(m, id)
    /\ \E a \in Accounts : broker = [positions |-> <<>>, account |-> a]
    /\ last = NoLast

\* the executor and the broker after execute_signal(symbol, signal) did r
Executed(symbol, signal, reply, r) ==
    LET opened == r.sent /\ reply.order = "DONE"
    IN  /\ opened => Len(broker.positions) < MaxOpen
        /\ broker' = IF opened
                     THEN [broker EXCEPT !.positions =
                              Append(@, [symbol |-> symbol, profit |-> 0])]
                     ELSE broker
        /\ last' = [NoLast EXCEPT !.op = "execute_signal", !.ret = r.ret,
                                  !.sized = r.sized, !.sent = r.sent,
                                  !.lot = r.lot, !.risk = r.risk,
                                  !.action = signal.action,
                                  !.retcode = IF r.sent THEN reply.order ELSE "none"]
        /\ UNCHANGED te

\* trade_executor.execute_signal(symbol, signal)
ExecuteSignal ==
    \E call \in ExecCalls :
        Executed(ExecSymbol, call[1], call[2],
                 execute_signal(te, broker, call[2], ExecSymbol, call[1]))

\* trade_executor.manage_positions()
ManagePositions ==
    \E answered \in BOOLEAN :
        /\ te' = manage_positions(te, broker, answered)
        /\ last' = [NoLast EXCEPT !.op = "manage_positions"]
        /\ UNCHANGED broker

\* trade_executor.close_position(position), also once per position in
\* close_all_positions
ClosePosition ==
    \E i \in 1..Len(broker.positions), retcode \in {"DONE", "REJECTED", "none"} :
        LET profit == broker.positions[i].profit
            after  == close_position(te, profit, retcode)
        IN  /\ after.consecutive_wins <= MaxStreak
            /\ after.consecutive_losses <= MaxStreak
            /\ te' = after
            /\ broker' = IF retcode = "DONE"
                         THEN [broker EXCEPT !.positions =
                                  SubSeq(@, 1, i - 1) \o SubSeq(@, i + 1, Len(@))]
                         ELSE broker
            /\ last' = [NoLast EXCEPT !.op = "close_position", !.ret = (retcode = "DONE"),
                                      !.retcode = retcode, !.profit = profit]

\* main.py after a reload: trade_executor.strategy_manager = current_strategy_manager,
\* then trade_executor.refresh_from_strategy()
RefreshFromStrategy ==
    \E id \in ExecStrategyIds :
        /\ te' = refresh_from_strategy([te EXCEPT !.strategy_manager = id])
        /\ last' = [NoLast EXCEPT !.op = "refresh_from_strategy"]
        /\ UNCHANGED broker

\* the market moves: the floating profit of a position and the account change
MarketMoves ==
    /\ \E a \in Accounts :
         \/ /\ broker.positions # <<>>
            /\ \E i \in 1..Len(broker.positions), p \in Profits :
                 broker' = [broker EXCEPT !.positions[i].profit = p, !.account = a]
         \/ broker' = [broker EXCEPT !.account = a]
    /\ last' = [NoLast EXCEPT !.op = "market"]
    /\ UNCHANGED te

\* the broker closes a position at its stop loss or take profit
StopOut ==
    /\ \E i \in 1..Len(broker.positions) :
         broker' = [broker EXCEPT !.positions =
                       SubSeq(@, 1, i - 1) \o SubSeq(@, i + 1, Len(@))]
    /\ last' = [NoLast EXCEPT !.op = "market"]
    /\ UNCHANGED te

-----------------------------------------------------------------------------
(* Sizing scenario: one call of calculate_position_size                    *)

SizingSymbols  == {"EURUSD", "US30", "XAGUSD", "BTCUSD", "ETHUSD"}
SizingBalances == {100, 1000}
\* the ask of the order and the stop of the signal: 31 points below, at the
\* ask, 19 points above, 2 points below
SizingStops == {119700, 120010, 120200, 119990}

SizingCalls ==
    [ self : {TradeExecutor(0, id) : id \in {"none", "legacy"}},
      balance : SizingBalances,
      account_info : BOOLEAN,
      symbol : SizingSymbols,
      entry_price : {TickInfo.ask},
      stop_loss : SizingStops,
      confidence : {60, 70, 86} ]

NoSizing ==
    [ self |-> TradeExecutor(0, "none"), balance |-> 0, account_info |-> FALSE,
      symbol |-> ExecSymbol, entry_price |-> 0, stop_loss |-> 0, confidence |-> 0 ]

IdleSize == scall = NoSizing /\ slot = NaN

InitSize == scall \in SizingCalls /\ slot = NaN

\* lot = self.calculate_position_size(symbol, price, sl, signal)
CalculatePositionSize ==
    /\ slot = NaN
    /\ scall # NoSizing
    /\ slot' = << calculate_position_size(
                     scall.self,
                     [positions |-> <<>>,
                      account |-> [balance |-> scall.balance, equity |-> scall.balance]],
                     [GoodReply EXCEPT !.account_info_sizing = scall.account_info],
                     scall.symbol, scall.entry_price, scall.stop_loss,
                     Order("BUY", scall.confidence, 100, <<scall.stop_loss>>,
                           <<scall.entry_price>>)).lot >>
    /\ UNCHANGED scall

-----------------------------------------------------------------------------
(* main.py: the reload globals and the trading loop                        *)

\* the symbols the terminal knows; XAUUSD.s is not in the market watch but
\* can be selected
MT5Symbols == {"EURUSD", "USDJPY", "XAUUSD.s"}

\* the alternative format verify_symbols_availability tries: without a
\* trailing '.s', or with one
AltSymbol(symbol) ==
    CASE symbol = "EURUSD.s" -> "EURUSD"   [] symbol = "EURUSD" -> "EURUSD.s"
      [] symbol = "GBPUSD.s" -> "GBPUSD"   [] symbol = "GBPUSD" -> "GBPUSD.s"
      [] symbol = "USDJPY.s" -> "USDJPY"   [] symbol = "USDJPY" -> "USDJPY.s"
      [] symbol = "XAUUSD.s" -> "XAUUSD"   [] symbol = "XAUUSD" -> "XAUUSD.s"

\* verify_symbols_availability(symbols): the available ones, renamed to the
\* format the terminal knows
RECURSIVE verify_symbols_availability(_)
verify_symbols_availability(symbols) ==
    IF symbols = <<>> THEN <<>>
    ELSE LET symbol == Head(symbols)
             found  == IF symbol \in MT5Symbols THEN <<symbol>>
                       ELSE IF AltSymbol(symbol) \in MT5Symbols THEN <<AltSymbol(symbol)>>
                       ELSE <<>>
         IN  found \o verify_symbols_availability(Tail(symbols))

\* the strategy files of the model ("nofile": config/strategies holds none;
\* "unlisted": its one pair is unknown to the terminal in either format)
LoopFiles == {"legacy", "advanced", "null_philosophy", "default", "unlisted"}

\* find_strategy_file: the newest file
find_strategy_file(d) == d.file

\* len(philosophy) raises for a value without a length
LenRaises(j) == ~(IsDict(j) \/ IsList(j) \/ j[1] = "str")

\* reload_strategy(): what it returned and the globals it left
reload_strategy(g, d) ==
    LET new_strategy_file == find_strategy_file(d) IN
    IF new_strategy_file = "nofile" THEN [ret |-> FALSE, glob |-> g]
    ELSE
    LET new_strategy_manager  == ManagerFor(new_strategy_file)
        symbols_from_strategy == get_symbols_from_strategy(new_strategy_manager)
        g1 == [g EXCEPT !.current_trading_symbols = symbols_from_strategy]
        strategy_info == get_strategy_info(new_strategy_manager)
    IN  IF LenRaises(strategy_info.philosophy)
        THEN [ret |-> FALSE, glob |-> g1]                     \* the handler
        ELSE [ret |-> TRUE,
              glob |-> [g1 EXCEPT !.current_strategy_manager = new_strategy_file,
                                  !.strategy_file_path = new_strategy_file]]

\* the record of the last reload_strategy call: the globals before and
\* after it, the file it read and what it returned
NoReload ==
    [ called |-> FALSE, ret |-> FALSE, file |-> "nofile",
      before |-> [manager |-> "default", symbols |-> List(<<>>)],
      after  |-> [manager |-> "default", symbols |-> List(<<>>)] ]
Reloaded(g, d, r) ==
    [ called |-> TRUE, ret |-> r.ret, file |-> d.file,
      before |-> [manager |-> g.current_strategy_manager,
                  symbols |-> g.current_trading_symbols],
      after  |-> [manager |-> r.glob.current_strategy_manager,
                  symbols |-> r.glob.current_trading_symbols] ]

\* the market at the time of a loop body: the symbol's spread at the terminal
\* and the highest equity the account has had
CalmMarket == [spread |-> 0, peak_equity |-> 0]

\* the last step of the loop; for a loop body also the frame, the market and
\* the drawdown multiplier of the signal
NoStep ==
    [ op |-> "none", symbol |-> "", action |-> "HOLD", executed |-> FALSE,
      df |-> NoFrame, market |-> CalmMarket, dd_multiplier |-> 10 ]

\* main() up to 'Starting main trading loop...' with the file f in place
Started(f) ==
    LET id == IF f = "nofile" THEN "default" ELSE f
        symbols == get_symbols_from_strategy(ManagerFor(id))
    IN  [ glob |-> [ current_strategy_manager |-> id, strategy_file_path |-> f,
                     current_trading_symbols |->
                         List(verify_symbols_availability(symbols[2])) ],
          te   |-> TradeExecutor(0, id) ]

IdleLoop ==
    /\ glob = Started("nofile").glob
    /\ disk = [file |-> "nofile", signal |-> FALSE]
    /\ loop = [pc |-> "idle", queue |-> <<>>, reload |-> NoReload, step |-> NoStep]

InitLoop ==
    /\ \E f \in LoopFiles \cup {"nofile"} :
          /\ Started(f).glob.current_trading_symbols # List(<<>>)
          /\ glob = Started(f).glob
          /\ te = Started(f).te
          /\ disk = [file |-> f, signal |-> FALSE]
    /\ broker = [positions |-> <<>>, account |-> [balance |-> 1000, equity |-> 1000]]
    /\ last = NoLast
    /\ loop = [pc |-> "top", queue |-> <<>>, reload |-> NoReload, step |-> NoStep]

\* the dashboard: api_upload_strategy stores a file and writes the reload
\* signal; api_reload_strategy writes the signal alone
UploadStrategy ==
    /\ \E f \in LoopFiles : disk' = [file |-> f, signal |-> TRUE]
    /\ UNCHANGED <<glob, loop, evars>>

RequestReload ==
    /\ disk' = [disk EXCEPT !.signal = TRUE]
    /\ UNCHANGED <<glob, loop, evars>>

\* what the file system does to check_strategy_reload_signal: the signal file
\* is read and removed; it stays because os.remove fails; reading it raises
\* and it is removed by the handler; reading raises and it stays
SignalIO == {"ok", "locked", "unreadable", "unreadable_locked"}

\* check_strategy_reload_signal(): what it returns and the directory it leaves
check_strategy_reload_signal(d, io) ==
    IF ~d.signal THEN [ret |-> FALSE, disk |-> d]
    ELSE [ ret  |-> io \in {"ok", "locked"},
           disk |-> [d EXCEPT !.signal = io \in {"locked", "unreadable_locked"}] ]

\* the globals, the executor and the loop after reload_strategy (when the
\* signal was seen) did r at the top of a cycle; checked is what
\* check_strategy_reload_signal did
CycleSynced(checked, r, verified_symbols) ==
    /\ glob' = IF verified_symbols # <<>>
               THEN [r.glob EXCEPT !.current_trading_symbols = List(verified_symbols)]
               ELSE r.glob
    /\ te' = refresh_from_strategy(
                 [te EXCEPT !.strategy_manager = r.glob.current_strategy_manager])
    /\ loop' = [loop EXCEPT !.pc = "collect",
                            !.reload = IF checked.ret THEN Reloaded(glob, disk, r)
                                       ELSE NoReload,
                            !.step = [NoStep EXCEPT !.op = "top"]]
    /\ disk' = checked.disk
    /\ UNCHANGED <<broker, last>>

CycleReloaded(checked, r) ==
    CycleSynced(checked, r,
                verify_symbols_availability(r.glob.current_trading_symbols[2]))

\* was_reloaded = check_strategy_reload_signal(); if was_reloaded: reload_strategy()
ReloadIf(checked) ==
    IF checked.ret THEN reload_strategy(glob, disk) ELSE [ret |-> FALSE, glob |-> glob]

\* the top of a cycle: check_strategy_reload_signal, reload_strategy, the
\* sync of the executor and verify_symbols_availability
CycleTop ==
    /\ loop.pc = "top"
    /\ \E io \in SignalIO :
          CycleReloaded(check_strategy_reload_signal(disk, io),
                        ReloadIf(check_strategy_reload_signal(disk, io)))

\* the globals and the loop after collect_minute_data, where reload_strategy
\* did r when the signal was seen; checked is what
\* check_strategy_reload_signal did
Collected(checked, r) ==
    /\ glob' = r.glob
    /\ disk' = checked.disk
    /\ loop' = [loop EXCEPT !.pc = "process",
                            !.queue = r.glob.current_trading_symbols[2],
                            !.reload = IF checked.ret THEN Reloaded(glob, disk, r)
                                       ELSE NoReload,
                            !.step = [NoStep EXCEPT !.op = "collect"]]
    /\ UNCHANGED evars

\* collect_minute_data: a reload signal seen while collecting is applied at
\* once and ends the collection; then the loop over the symbols starts
CollectMinuteData ==
    /\ loop.pc = "collect"
    /\ \E io \in SignalIO :
          IF glob.current_trading_symbols[2] # <<>>
          THEN Collected(check_strategy_reload_signal(disk, io),
                         ReloadIf(check_strategy_reload_signal(disk, io)))
          ELSE Collected([ret |-> FALSE, disk |-> disk], [ret |-> FALSE, glob |-> glob])

\* what get_ohlc_data returns to the loop
LoopFrames ==
    {NoFrame, Frame(BarCount, RawColumns, "bull"), Frame(BarCount, RawColumns, "weak")}
LoopClocks == { [weekday |-> 2, hour |-> 10], [weekday |-> 5, hour |-> 10] }
LoopReplies == { GoodReply, [GoodReply EXCEPT !.order = "REJECTED"] }
LoopMarkets ==
    { [spread |-> 10, peak_equity |-> 1000], [spread |-> 10, peak_equity |-> 1050],
      [spread |-> 50, peak_equity |-> 1000] }

\* the broker and the loop after the loop body for symbol, where calls says
\* whether execute_signal was called and r what it did
Processed(symbol, df, market, signal, reply, calls, r) ==
    LET opened == r.sent /\ reply.order = "DONE"
    IN  /\ opened => Len(broker.positions) < MaxOpen
        /\ broker' = IF opened
                     THEN [broker EXCEPT !.positions =
                              Append(@, [symbol |-> symbol, profit |-> 0])]
                     ELSE broker
        /\ last' = IF calls
                   THEN [NoLast EXCEPT !.op = "execute_signal", !.ret = r.ret,
                                       !.sized = r.sized, !.sent = r.sent,
                                       !.lot = r.lot, !.risk = r.risk,
                                       !.action = signal.action,
                                       !.retcode = IF r.sent THEN reply.order ELSE "none"]
                   ELSE last
        /\ loop' = [loop EXCEPT !.queue = Tail(@), !.reload = NoReload,
                                !.step = [ op |-> "process", symbol |-> symbol,
                                           action |-> IF df.kind = "none" THEN "HOLD"
                                                      ELSE signal.action,
                                           executed |-> calls,
                                           df |-> df, market |-> market,
                                           dd_multiplier |-> signal.dd_multiplier ]]
        /\ UNCHANGED <<glob, disk, te>>

\* the loop body after analyze returned signal: 'if signal['action'] != 'HOLD''
Analyzed(symbol, df, market, signal, reply) ==
    Processed(symbol, df, market, signal, reply, df.kind # "none" /\ signal.action # "HOLD",
              IF df.kind # "none" /\ signal.action # "HOLD"
              THEN execute_signal(te, broker, reply, symbol, signal)
              ELSE ExecOutcome(FALSE, FALSE, FALSE, NaN, NaN))

\* Step 2 for one symbol: get_ohlc_data, analyze(symbol, ohlc_data) and, for
\* a signal that is not HOLD, execute_signal
ProcessSymbol ==
    /\ loop.pc = "process"
    /\ loop.queue # <<>>
    /\ \E df \in LoopFrames, clock \in LoopClocks, reply \in LoopReplies,
          market \in LoopMarkets :
         Analyzed(Head(loop.queue), df, market,
                  analyze(ManagerFor(glob.current_strategy_manager),
                          [ symbol |-> Head(loop.queue), df |-> df, clock |-> clock,
                            news |-> "no_db", spread |-> 0,
                            equity |-> [current |-> 0, peak |-> 0] ]).signal,
                  reply)

\* Step 3: trade_executor.manage_positions(), then the next cycle
ManageStep ==
    /\ loop.pc = "process"
    /\ loop.queue = <<>>
    /\ \E answered \in BOOLEAN : te' = manage_positions(te, broker, answered)
    /\ last' = [NoLast EXCEPT !.op = "manage_positions"]
    /\ loop' = [loop EXCEPT !.pc = "top", !.reload = NoReload,
                            !.step = [NoStep EXCEPT !.op = "manage"]]
    /\ UNCHANGED <<glob, disk, broker>>

-----------------------------------------------------------------------------
(* Specifications                                                          *)

\* one specification per scenario; the objects of the other scenarios rest

StartLoad == InitLoad /\ IdleAnalyze /\ IdleExec /\ IdleLoop /\ IdleSize
NextLoad ==
    \/ LoadStrategy /\ UNCHANGED <<avars, evars, mvars, svars>>
    \/ GetSymbols /\ UNCHANGED <<avars, evars, mvars, svars>>
SpecLoad == StartLoad /\ [][NextLoad]_vars

StartAnalyze == IdleLoad /\ InitAnalyze /\ IdleExec /\ IdleLoop /\ IdleSize
NextAnalyze ==
    \/ Analyze /\ UNCHANGED <<lvars, evars, mvars, svars>>
    \/ AnalyzeAgain /\ UNCHANGED <<lvars, evars, mvars, svars>>
SpecAnalyze == StartAnalyze /\ [][NextAnalyze]_vars

StartExec == IdleLoad /\ IdleAnalyze /\ InitExec /\ IdleLoop /\ IdleSize
NextExec ==
    \/ ExecuteSignal /\ UNCHANGED <<lvars, avars, mvars, svars>>
    \/ ManagePositions /\ UNCHANGED <<lvars, avars, mvars, svars>>
    \/ ClosePosition /\ UNCHANGED <<lvars, avars, mvars, svars>>
    \/ RefreshFromStrategy /\ UNCHANGED <<lvars, avars, mvars, svars>>
    \/ MarketMoves /\ UNCHANGED <<lvars, avars, mvars, svars>>
    \/ StopOut /\ UNCHANGED <<lvars, avars, mvars, svars>>
SpecExec == StartExec /\ [][NextExec]_vars

StartLoop == IdleLoad /\ IdleAnalyze /\ InitLoop /\ IdleSize
NextLoop ==
    \/ UploadStrategy /\ UNCHANGED <<lvars, avars, svars>>
    \/ RequestReload /\ UNCHANGED <<lvars, avars, svars>>
    \/ CycleTop /\ UNCHANGED <<lvars, avars, svars>>
    \/ CollectMinuteData /\ UNCHANGED <<lvars, avars, svars>>
    \/ ProcessSymbol /\ UNCHANGED <<lvars, avars, svars>>
    \/ ManageStep /\ UNCHANGED <<lvars, avars, svars>>
    \/ StopOut /\ UNCHANGED <<lvars, avars, mvars, svars>>
SpecLoop == StartLoop /\ [][NextLoop]_vars

\* the loop keeps running: 'while True' in main, with no step that blocks
LoopRuns ==
    /\ WF_vars(CycleTop /\ UNCHANGED <<lvars, avars, svars>>)
    /\ WF_vars(CollectMinuteData /\ UNCHANGED <<lvars, avars, svars>>)
    /\ WF_vars(ProcessSymbol /\ UNCHANGED <<lvars, avars, svars>>)
    /\ WF_vars(ManageStep /\ UNCHANGED <<lvars, avars, svars>>)
SpecLoopRuns == StartLoop /\ [][NextLoop]_vars /\ LoopRuns

StartSize == IdleLoad /\ IdleAnalyze /\ IdleExec /\ IdleLoop /\ InitSize
NextSize ==
    \/ CalculatePositionSize /\ UNCHANGED <<lvars, avars, evars, mvars>>
SpecSize == StartSize /\ [][NextSize]_vars

-----------------------------------------------------------------------------
(* Properties of analyze (SpecAnalyze)                                     *)

GateNames == {"check_weekend_shield", "check_news_block", "check_spread_filter"}
ScoringNames ==
    {"_evaluate_conditions", "compute_liquidity_imbalance_score",
     "compute_drawdown_risk_multiplier", "compute_volatility_risk_multiplier",
     "_exit_levels"}
IsGateCall(c)    == c \in GateNames
IsScoringCall(c) == c \in ScoringNames

\* analyze has returned
AnalyzeReturned == apc \in {"done", "again"}

\* analyze has returned for at least two bars that carry a close price
TwoBars ==
    AnalyzeReturned /\ req.df.kind = "frame" /\ req.df.len >= 2 /\ "close" \in req.df.cols

\* the gate that blocks the request first (1 weekend, 2 news, 3 spread; 0 when
\* every gate passes), decided from the request alone
FirstBlockingGate ==
    LET self == ManagerFor(req.strategy)
        df   == calculate_indicators(self, req.df).df
    IN  IF ~check_weekend_shield(self, req.clock) THEN 1
        ELSE IF ~check_news_block(self, req.news).pass THEN 2
        ELSE IF ~check_spread_filter(self, req.spread, df) THEN 3
        ELSE 0

\* C1: once at least two bars (with their close price) are available, analyze
\* evaluates the gates in the order weekend shield, news block, spread filter,
\* right after the indicators and before any scoring step; the first gate that
\* blocks ends the call with a HOLD whose hold_reason names that gate and no
\* later gate is evaluated; scoring, the liquidity adjustment, the risk
\* multipliers and the exit levels are evaluated only when all three gates pass.
C1_GatesInOrder ==
    TwoBars =>
        LET order   == <<"check_weekend_shield", "check_news_block", "check_spread_filter">>
            reasons == <<"weekend_shield", "news_block", "spread_too_wide">>
            first   == FirstBlockingGate
            gates   == SelectSeq(out.calls, IsGateCall)
            scoring == SelectSeq(out.calls, IsScoringCall)
        IN  /\ gates = SubSeq(order, 1, IF first = 0 THEN 3 ELSE first)
            /\ out.calls = <<"calculate_indicators">> \o gates \o scoring
            /\ first # 0 => /\ out.signal.action = "HOLD"
                            /\ out.signal.hold_reason = reasons[first]
                            /\ scoring = <<>>
            /\ scoring # <<>> => first = 0 /\ gates = order

\* the news block ends a call whose spread is too wide as well
C1_NewsBlocksBeforeSpread ==
    /\ TwoBars
    /\ apc = "done"
    /\ out.signal.hold_reason = "news_block"
    /\ out.calls = <<"calculate_indicators", "check_weekend_shield", "check_news_block">>
    /\ ~check_spread_filter(ManagerFor(req.strategy), req.spread,
                            calculate_indicators(ManagerFor(req.strategy), req.df).df)

\* C3: every signal analyze returns - BUY, SELL, a HOLD of the decision, a HOLD
\* of a gate, the HOLD for too few bars and the HOLD of the handler - has
\* risk_multiplier = dd_multiplier * vol_multiplier.
C3_RiskMultiplierIsProduct ==
    AnalyzeReturned =>
        out.signal.risk_multiplier
            = out.signal.dd_multiplier * out.signal.vol_multiplier

\* a trade signal on which both the drawdown and the volatility engine cut risk
C3_BothEnginesCut ==
    /\ AnalyzeReturned
    /\ out.signal.action \in {"BUY", "SELL"}
    /\ out.signal.dd_multiplier < 10
    /\ out.signal.vol_multiplier < 10
    /\ out.signal.risk_multiplier < 100

\* C4: two calls of analyze that differ only in current_equity and peak_equity
\* return the same action, confidence, stop_loss and take_profit; of the whole
\* signal only dd_multiplier and risk_multiplier may differ.
C4_EquityLeavesDecision ==
    apc = "again" =>
        /\ out.signal.action      = out2.signal.action
        /\ out.signal.confidence  = out2.signal.confidence
        /\ out.signal.stop_loss   = out2.signal.stop_loss
        /\ out.signal.take_profit = out2.signal.take_profit
        /\ [out.signal EXCEPT !.dd_multiplier = 10, !.risk_multiplier = 100]
             = [out2.signal EXCEPT !.dd_multiplier = 10, !.risk_multiplier = 100]

\* the second call returns the same BUY under another drawdown multiplier
C4_SameBuyOtherDrawdown ==
    /\ apc = "again"
    /\ out.signal.action = "BUY"
    /\ out.signal.dd_multiplier # out2.signal.dd_multiplier
    /\ out.signal.risk_multiplier # out2.signal.risk_multiplier

\* C8 as stated: analyze never raises, and whenever an internal step fails -
\* in the handler of analyze, of calculate_indicators or of a gate check - the
\* signal returned is HOLD with confidence 0.
C8_EveryFailureHolds ==
    AnalyzeReturned =>
        /\ ~out.raised
        /\ (out.caught \/ out.swallowed) =>
               out.signal.action = "HOLD" /\ out.signal.confidence = 0

\* C8: analyze never raises and always returns a signal; when an exception
\* reaches the handler of analyze the signal is HOLD with confidence 0 and
\* neutral multipliers.  (A failure that calculate_indicators or a gate check
\* handles itself does not end the call.)
C8_NeverRaises ==
    AnalyzeReturned =>
        /\ ~out.raised
        /\ out.signal.action \in {"BUY", "SELL", "HOLD"}
        /\ out.caught =>
               /\ out.signal.action = "HOLD"
               /\ out.signal.confidence = 0
               /\ out.signal.hold_reason = ""
               /\ out.signal.risk_multiplier = 100

\* the handler of analyze ran on a full series of bars
C8_HandlerRan ==
    /\ AnalyzeReturned
    /\ out.caught
    /\ req.df.kind = "frame"
    /\ req.df.len = BarCount
    /\ out.signal.action = "HOLD"

-----------------------------------------------------------------------------
(* Properties of the executor (SpecExec)                                   *)

\* C2 as stated: a call of execute_signal sends an order, or invokes
\* calculate_position_size, only if at that call the open positions are fewer
\* than max_positions, the daily loss limit is not hit, the account drawdown
\* (balance - equity) / balance is below max_drawdown_limit and the action of
\* the signal is BUY or SELL.
C2_OrderOnlyWithinLimits ==
    [][ (last'.op = "execute_signal" /\ (last'.sent \/ last'.sized)) =>
            /\ Len(broker.positions) < te.max_positions
            /\ (te.max_daily_loss = 0 \/ te.daily_pnl > -te.max_daily_loss)
            /\ (broker.account.balance - broker.account.equity) * 10000
                   < te.max_drawdown_limit * broker.account.balance
            /\ last'.action \in {"BUY", "SELL"} ]_vars

\* C5: the risk fraction calculate_position_size uses for the monetary risk is
\* at most risk_per_trade_max, for every confidence, streak state,
\* anti-martingale configuration and risk_multiplier of the signal.
C5_RiskCapped ==
    (last.op = "execute_signal" /\ last.sized /\ IsNum(last.risk)) =>
        /\ last.risk[1] <= te.risk_per_trade_max * RiskUnit
        /\ last.risk[1] >= 0

\* a winning streak past the anti-martingale trigger: the cap is what sizes
\* the order
C5_CapBinds ==
    /\ last.op = "execute_signal"
    /\ last.sent
    /\ te.strategy_manager = "anti_martingale"
    /\ te.consecutive_wins >= 2
    /\ last.risk = <<te.risk_per_trade_max * RiskUnit>>

\* C7: consecutive_wins and consecutive_losses change only in a close_position
\* whose broker result is DONE: with profit > 0 the wins grow by one and the
\* losses become 0, otherwise the losses grow by one and the wins become 0; a
\* failed close, execute_signal (with calculate_position_size),
\* manage_positions and refresh_from_strategy leave both as they are.
C7_StreakOnlyOnClose ==
    [][ IF last'.op = "close_position" /\ last'.retcode = "DONE"
        THEN IF last'.profit > 0
             THEN /\ te'.consecutive_wins = te.consecutive_wins + 1
                  /\ te'.consecutive_losses = 0
             ELSE /\ te'.consecutive_losses = te.consecutive_losses + 1
                  /\ te'.consecutive_wins = 0
        ELSE /\ te'.consecutive_wins = te.consecutive_wins
             /\ te'.consecutive_losses = te.consecutive_losses ]_vars

\* a second win in a row has been counted after a loss was reset
C7_SecondWinCounted ==
    /\ last.op = "close_position"
    /\ last.retcode = "DONE"
    /\ last.profit > 0
    /\ te.consecutive_wins = 2
    /\ te.consecutive_losses = 0

-----------------------------------------------------------------------------
(* Properties of the reload (SpecLoop)                                     *)

\* C6 as stated: after a call of reload_strategy either it returned True and
\* current_strategy_manager and current_trading_symbols both come from the
\* newly loaded strategy, or it returned False and both are unchanged.
C6_ReloadAtomic ==
    loop.reload.called =>
        \/ /\ loop.reload.ret
           /\ loop.reload.after.manager = loop.reload.file
           /\ loop.reload.after.symbols
                  = get_symbols_from_strategy(ManagerFor(loop.reload.file))
        \/ /\ ~loop.reload.ret
           /\ loop.reload.after = loop.reload.before

-----------------------------------------------------------------------------
(* Properties of loading (SpecLoad)                                        *)

\* C9: load_strategy never raises; a document that is unparsable or is not a
\* key-value structure makes it return False, and whenever it returns False -
\* also when normalization failed - the manager holds exactly the built-in
\* defaults (empty trading_pairs, risk 0.01 .. 0.02, min_confidence 60, format
\* legacy, name Default) and nothing of the document in strategy_config or
\* _norm.
C9_FailedLoadLeavesDefaults ==
    lpc = "loaded" =>
        /\ ~lres.raised
        /\ ~IsDict(raw) => ~lres.ret
        /\ ~lres.ret =>
               /\ mgr.strategy_config = Dict(EmptyMap)
               /\ mgr.strategy_name = "Default"
               /\ mgr.format = "legacy"
               /\ mgr.norm = DefaultNorm
               /\ mgr.norm.trading_pairs = List(<<>>)
               /\ mgr.norm.risk_per_trade_min = 100
               /\ mgr.norm.risk_per_trade_max = 200
               /\ mgr.norm.min_confidence = 600

\* normalization failed after the document's name and format were stored
C9_NormalizationFailed ==
    /\ lpc = "loaded"
    /\ ~lres.ret
    /\ IsDict(raw)
    /\ Has(raw, "general_parameters")
    /\ Has(raw, "strategy_name")
    /\ mgr.strategy_name = "Default"

\* the documents of the model without any non-empty pair or symbol list
DocumentsWithoutSymbols ==
    LET bodies == {LegacyBody(p, r, c) : p \in {"none", "empty"}, r \in RiskShapes,
                                         c \in ConfShapes}
                  \cup {AdvancedBody(FALSE, r) : r \in RiskShapes}
    IN  bodies \cup {Wrapped(b) : b \in bodies} \cup {Dict(EmptyMap)}

\* C10 as stated: for a document without a non-empty pair or symbol list the
\* normalized trading_pairs are empty and get_symbols_from_strategy yields no
\* symbols; no default symbol list is substituted.
C10_NoHiddenDefault ==
    (lpc = "symbols" /\ raw \in DocumentsWithoutSymbols) =>
        /\ mgr.norm.trading_pairs = List(<<>>)
        /\ lres.symbols = List(<<>>)

\* C11 as stated: after every load - of either schema, or the fallback to the
\* default - the normalized parameters have risk_per_trade_max >=
\* risk_per_trade_min >= 0, a min_confidence between 0 and 100 and no negative
\* scoring weight, whatever the document.
C11_ParametersValid ==
    lpc = "loaded" =>
        /\ mgr.norm.risk_per_trade_max >= mgr.norm.risk_per_trade_min
        /\ mgr.norm.risk_per_trade_min >= 0
        /\ mgr.norm.min_confidence >= 0
        /\ mgr.norm.min_confidence <= 100 * 10
        /\ IsDict(mgr.norm.scoring)
        /\ \A k \in DOMAIN mgr.norm.scoring[2] : mgr.norm.scoring[2][k] >= 0

\* the documents of the model that give the confidence threshold as the
\* fraction 0.6 and load
FractionDocuments ==
    LET bodies == {LegacyBody(p, r, "fraction") : p \in PairPlaces,
                                                 r \in RiskShapes \ {"short"}}
    IN  bodies \cup {Wrapped(b) : b \in bodies}

\* C12 as stated: a document that configures the confidence threshold as the
\* fraction 0.6 is normalized to min_confidence = 60.
C12_FractionBecomesPercent ==
    (lpc = "loaded" /\ raw \in FractionDocuments) =>
        lres.ret /\ mgr.norm.min_confidence = 60 * 10

\* the fields both branches of _normalize produce
SharedFields == DOMAIN NormalizeLegacy(Dict(EmptyMap)) \cap DOMAIN NormalizeAdvanced(Dict(EmptyMap))

\* C13 as stated: a legacy and an advanced document that describe the same
\* pairs, the same risk range and the same confidence threshold are normalized
\* to parameters that are equal on every field both schemas produce.
C13_SchemasAgree ==
    (lpc = "loaded" /\ raw \in {EquivalentLegacy, EquivalentAdvanced}) =>
        LET twin  == IF raw = EquivalentLegacy THEN EquivalentAdvanced ELSE EquivalentLegacy
            other == load_strategy(NewManager, twin).self.norm
        IN  /\ lres.ret
            /\ \A f \in SharedFields : mgr.norm[f] = other[f]

-----------------------------------------------------------------------------
(* Scoring bounds                                                          *)

RECURSIVE SumOver(_, _)
SumOver(f, keys) ==
    IF keys = {} THEN 0
    ELSE LET k == CHOOSE x \in keys : TRUE IN f[k] + SumOver(f, keys \ {k})

\* the sum of the weights and bonuses of the strategy's scoring table
ScoringTableSum(self) ==
    IF IsDict(self.norm.scoring)
    THEN SumOver(self.norm.scoring[2], DOMAIN self.norm.scoring[2])
    ELSE 0

\* the frame analyze scores: the one calculate_indicators returned
ScoredFrame == calculate_indicators(ManagerFor(req.strategy), req.df).df

ScoringRan ==
    /\ AnalyzeReturned
    /\ \E i \in DOMAIN out.calls : out.calls[i] = "_evaluate_conditions"
    /\ IsDict(ManagerFor(req.strategy).norm.scoring)

ScoresWithin(ev, total) ==
    /\ ev.buy >= 0 /\ ev.buy <= total
    /\ ev.sell >= 0 /\ ev.sell <= total

ScoresOf(self, df) == _evaluate_conditions(self, df, Latest(df), Prev(df))

\* C14 as stated: whenever analyze scored a pair of bars under a scoring
\* table, buy_score and sell_score of _evaluate_conditions are each at least
\* 0 and at most the sum of the weights and bonuses of that table.
C14_ScoresWithinTable ==
    ScoringRan =>
        ScoresWithin(ScoresOf(ManagerFor(req.strategy), ScoredFrame),
                     ScoringTableSum(ManagerFor(req.strategy)))

-----------------------------------------------------------------------------
(* The cross bonus                                                         *)

\* the strategy with entries of its scoring table replaced
Reweighted(self, entries) ==
    [self EXCEPT !.norm.scoring = Dict(entries @@ self.norm.scoring[2])]

\* the relation of the fast average to the slow one on a bar
Relation(row) ==
    IF row.ema_fast[1] > row.ema_slow[1] THEN "above"
    ELSE IF row.ema_fast[1] = row.ema_slow[1] THEN "equal" ELSE "below"

\* analyze scored a frame whose last two bars carry both averages, under a
\* table that configures a cross bonus
CrossScored ==
    /\ ScoringRan
    /\ {"ema_fast", "ema_slow"} \subseteq ScoredFrame.cols
    /\ \A row \in {Latest(ScoredFrame), Prev(ScoredFrame)} :
           IsNum(row.ema_fast) /\ IsNum(row.ema_slow)
    /\ Get(ManagerFor(req.strategy).norm.scoring, "ma_cross_bonus", 0) > 0

\* what the entries zero took out of the two scores
Credited(ev, evWithout) == (ev.buy + ev.sell) - (evWithout.buy + evWithout.sell)

BonusCredited(self, df) ==
    Credited(ScoresOf(self, df), ScoresOf(Reweighted(self, "ma_cross_bonus" :> 0), df))

CrossCreditedToBuy(self, df) ==
    ScoresOf(self, df).buy
    - ScoresOf(Reweighted(self, ("ma_cross" :> 0) @@ ("ma_cross_bonus" :> 0)), df).buy

\* C15 as stated: the cross bonus is credited exactly when the relation of the
\* fast average to the slow one on the current bar differs from the relation
\* on the previous bar (none when it is the same, fast = slow on both bars
\* included); with 1.2030 <= 1.2035 before and 1.2050 > 1.2040 now, under the
\* weights 30 and 10, the buy side gets 40.
C15_BonusIffRelationChanged ==
    CrossScored =>
        /\ (BonusCredited(ManagerFor(req.strategy), ScoredFrame) > 0)
               <=> (Relation(Latest(ScoredFrame)) # Relation(Prev(ScoredFrame)))
        /\ (req.strategy = "legacy_ema" /\ req.df.pattern = "bull")
               => CrossCreditedToBuy(ManagerFor(req.strategy), ScoredFrame) = 40

-----------------------------------------------------------------------------
(* The drawdown recovery multiplier                                        *)

\* the account states the multiplier is compared on: those of the requests
\* with a peak, and equity 9400 under peak 10000
DrawdownSamples ==
    {e \in Equities : e.peak > 0} \cup {[current |-> 9400, peak |-> 10000]}

\* the drawdown fraction of a is at most that of b
NoDeeper(a, b) == (a.peak - a.current) * b.peak <= (b.peak - b.current) * a.peak

\* the drawdown fraction of e reaches thresh (1/1000)
Crossed(e, thresh) == (e.peak - e.current) * 1000 >= thresh * e.peak

\* the multiplier of the highest threshold e crossed; 1.0 when it crossed none
HighestCrossedMult(n, e) ==
    LET levels  == { <<n.dre_l1_thresh, n.dre_l1_mult>>, <<n.dre_l2_thresh, n.dre_l2_mult>>,
                     <<n.dre_l3_thresh, n.dre_l3_mult>> }
        crossed == {l \in levels : Crossed(e, l[1])}
    IN  IF crossed = {} THEN {10}
        ELSE {l[2] : l \in {c \in crossed : \A d \in crossed : d[1] <= c[1]}}

\* analyze asked for the drawdown multiplier and put it into its signal
DrawdownApplied ==
    /\ AnalyzeReturned
    /\ ~out.caught
    /\ \E i \in DOMAIN out.calls : out.calls[i] = "compute_drawdown_risk_multiplier"

\* C16 as stated: for every loaded strategy and every peak above 0 the
\* drawdown multiplier does not increase with the drawdown fraction, is 1.0
\* below the level-1 threshold, and is the multiplier of the highest threshold
\* crossed; equity 9400 under peak 10000 with thresholds 0.01 / 0.02 / 0.03
\* and multipliers 0.8 / 0.6 / 0.4 gives 0.4.
C16_DrawdownMultiplierMonotone ==
    DrawdownApplied =>
        LET self == ManagerFor(req.strategy)
            n    == self.norm
            m    == out.signal.dd_multiplier
        IN  /\ m = compute_drawdown_risk_multiplier(self, req.equity.current, req.equity.peak)
            /\ \A e \in DrawdownSamples :
                   /\ NoDeeper(req.equity, e) =>
                         compute_drawdown_risk_multiplier(self, e.current, e.peak) <= m
                   /\ NoDeeper(e, req.equity) =>
                         compute_drawdown_risk_multiplier(self, e.current, e.peak) >= m
            /\ "dre_l1_thresh" \in DOMAIN n =>
                   /\ ~Crossed(req.equity, n.dre_l1_thresh) => m = 10
                   /\ m \in HighestCrossedMult(n, req.equity)
                   /\ (<<n.dre_l1_thresh, n.dre_l2_thresh, n.dre_l3_thresh>> = <<10, 20, 30>>
                        /\ <<n.dre_l1_mult, n.dre_l2_mult, n.dre_l3_mult>> = <<8, 6, 4>>)
                          => compute_drawdown_risk_multiplier(self, 9400, 10000) = 4
            /\ "dre_l1_thresh" \notin DOMAIN n => m = 10

-----------------------------------------------------------------------------
(* Exit levels of a signal                                                 *)

\* analyze returned a BUY or SELL
Traded == AnalyzeReturned /\ out.signal.action \in {"BUY", "SELL"}

\* ATR exits are enabled and the scored bar has an ATR
AtrExitUsable ==
    /\ ManagerFor(req.strategy).norm.use_atr_exit
    /\ Present(ScoredFrame, Latest(ScoredFrame), "atr")

\* the stop distance of a signal, in 1/10 point
StopDistance(levels, entry, action) ==
    IF action = "BUY" THEN entry * 10 - levels[1] ELSE levels[1] - entry * 10

Factors == 1..3

FixedPipsConfigured(self) ==
    LET exit_cfg == Get(self.strategy_config, "exit_strategy", Dict(EmptyMap))
    IN  /\ self.format = "legacy"
        /\ IsDict(exit_cfg)
        /\ DOMAIN exit_cfg[2] \cap {"stop_loss", "stop_loss_pips",
                                     "take_profit", "take_profit_pips"} # {}

\* C18 as stated: a BUY or SELL of a strategy with neither a usable ATR exit
\* nor a fixed-pip exit configuration carries no stop_loss and no take_profit
\* (no built-in distance is used), so that the executor refuses it.
C18_NoBuiltInExit ==
    (Traded /\ ~AtrExitUsable /\ ~FixedPipsConfigured(ManagerFor(req.strategy))) =>
        /\ out.signal.stop_loss = NaN
        /\ out.signal.take_profit = NaN

-----------------------------------------------------------------------------
(* Properties of calculate_position_size (SpecSize)                        *)

Sized == slot # NaN

SizingInfo == SymbolInfoOf(scall.symbol)

SizingDistance ==
    IF scall.entry_price >= scall.stop_loss THEN scall.entry_price - scall.stop_loss
    ELSE scall.stop_loss - scall.entry_price

\* the call passes every early return of calculate_position_size
SizingNormalPath ==
    /\ scall.account_info
    /\ SizingDistance > 0
    /\ SizingInfo.trade_tick_size > 0
    /\ SizingInfo.trade_tick_value > 0

\* the whole hundredths of a lot in risk_amount / (sl_ticks * tick_value)
RawLotWhole ==
    LET risk_pct == RiskFraction(scall.self,
                                 Order("BUY", scall.confidence, 100, NaN, NaN))
    IN  ((scall.balance * risk_pct * SizingInfo.trade_tick_size) \div (100 * RiskUnit))
            \div (SizingDistance * SizingInfo.trade_tick_value)

\* C19 as stated: on the normal path the lot returned is the raw lot clamped
\* to [volume_min, volume_max] and then rounded down to a multiple of
\* volume_step.
C19_ClampedThenRoundedDown ==
    (Sized /\ SizingNormalPath) =>
        slot[1] = (Min(Max(RawLotWhole, SizingInfo.volume_min), SizingInfo.volume_max)
                      \div SizingInfo.volume_step) * SizingInfo.volume_step

\* C20 as stated: every lot returned lies within [volume_min, volume_max],
\* and it is the minimum lot of the symbol whenever the stop distance, the
\* tick size or the tick value is not positive.
C20_LotWithinVolumeLimits ==
    Sized =>
        /\ slot[1] >= SizingInfo.volume_min
        /\ slot[1] <= SizingInfo.volume_max
        /\ (SizingDistance <= 0 \/ SizingInfo.trade_tick_size <= 0
             \/ SizingInfo.trade_tick_value <= 0) => slot[1] = SizingInfo.volume_min

-----------------------------------------------------------------------------
(* RSI without losses (SpecAnalyze)                                        *)

\* the closes the RSI of the scored bar was computed from
ClosesOf(pattern) == IF pattern = "rally" THEN RallyCloses ELSE StillCloses

\* analyze scored a bar whose RSI window holds no falling close
NoLossScored ==
    /\ ScoringRan
    /\ "rsi" \in ScoredFrame.cols
    /\ req.df.pattern \in {"rally", "still"}
    /\ LastSum(Moves(ClosesOf(req.df.pattern), FALSE), DefaultNorm.rsi_period) = 0

RsiCredited(self, df) ==
    Credited(ScoresOf(self, df), ScoresOf(Reweighted(self, "rsi" :> 0), df))

\* C21 as stated: when the average loss of the RSI window is zero, the average
\* gain positive or not, the RSI is NaN and the RSI step adds nothing to
\* buy_score and nothing to sell_score.
C21_NoLossRsiUndefined ==
    NoLossScored =>
        /\ Latest(ScoredFrame).rsi = NaN
        /\ RsiCredited(ManagerFor(req.strategy), ScoredFrame) = 0

-----------------------------------------------------------------------------
(* The liquidity score (SpecAnalyze)                                       *)

\* analyze asked for the liquidity score and put it into its signal
LimApplied ==
    /\ AnalyzeReturned
    /\ ~out.caught
    /\ \E i \in DOMAIN out.calls : out.calls[i] = "compute_liquidity_imbalance_score"

\* a score (1/10000) is a number between 0 and 1
UnitScore(score) == IsNum(score) /\ score[1] >= 0 /\ score[1] <= 10000

\* the frame with the body-to-range ratio of its last bar taken as 0
ZeroBodyScore(self, df, spread) ==
    compute_liquidity_imbalance_score([self EXCEPT !.norm.lim_body_weight = 0], df, spread)

\* C22 as stated: the liquidity score of every signal is a number in [0, 1];
\* it is 0.5 when the overlay is disabled or fewer than 5 bars are given, and
\* a last bar without high-low range counts with a body-to-range ratio of 0.
C22_LiquidityScoreInUnitInterval ==
    /\ AnalyzeReturned => UnitScore(out.signal.lim_score)
    /\ LimApplied =>
          LET self == ManagerFor(req.strategy) IN
          /\ out.signal.lim_score
                = compute_liquidity_imbalance_score(self, ScoredFrame, req.spread)
          /\ (~self.norm.lim_enabled \/ ScoredFrame.len < 5)
                => out.signal.lim_score = <<5000>>
          /\ (self.norm.lim_enabled /\ ScoredFrame.len >= 5
               /\ "body_ratio" \in ScoredFrame.cols /\ req.df.pattern = "doji")
                => out.signal.lim_score = ZeroBodyScore(self, ScoredFrame, req.spread)

-----------------------------------------------------------------------------
(* The liquidity adjustment of the scores (SpecAnalyze)                    *)

\* analyze adjusted the scores of a table and went on to its decision
Adjusted == LimApplied /\ ScoringRan

InStrongBand(n, lim_score) ==
    /\ n.lim_enabled /\ IsNum(lim_score)
    /\ lim_score[1] >= n.lim_strong_threshold * 100
    /\ lim_score[1] < n.lim_extreme_threshold * 100

AtExtreme(n, lim_score) ==
    n.lim_enabled /\ IsNum(lim_score) /\ lim_score[1] >= n.lim_extreme_threshold * 100

\* the adjustment keeps the side: ev before, adj after it
KeepsSide(n, lim_score, ev, adj, action) ==
    /\ InStrongBand(n, lim_score) =>
          /\ adj.buy - adj.sell = ev.buy - ev.sell
          /\ adj.buy - ev.buy = adj.sell - ev.sell
    /\ AtExtreme(n, lim_score) =>
          /\ adj.buy  = (ev.buy  * n.lim_risk_reduction) \div 100
          /\ adj.sell = (ev.sell * n.lim_risk_reduction) \div 100
    /\ ev.buy > ev.sell => adj.buy >= adj.sell
    /\ ev.sell > ev.buy => adj.sell >= adj.buy
    /\ action = "BUY"  => ev.buy > ev.sell
    /\ action = "SELL" => ev.sell > ev.buy

AdjustedScores(self, lim_score, ev) == LimAdjust(self, lim_score, ev.buy, ev.sell)

\* C23: the liquidity adjustment never picks a direction: in the strong band
\* the same bonus goes to both scores, at or above the extreme threshold both
\* are multiplied by the same factor and truncated, and a BUY (SELL) is only
\* returned when buy_score (sell_score) was strictly ahead before it.
C23_AdjustmentKeepsSide ==
    Adjusted =>
        KeepsSide(ManagerFor(req.strategy).norm, out.signal.lim_score,
                  ScoresOf(ManagerFor(req.strategy), ScoredFrame),
                  AdjustedScores(ManagerFor(req.strategy), out.signal.lim_score,
                                 ScoresOf(ManagerFor(req.strategy), ScoredFrame)),
                  out.signal.action)

\* a BUY whose confidence holds the bonus of the strong band
C23_BonusOnBuy ==
    /\ Adjusted
    /\ InStrongBand(ManagerFor(req.strategy).norm, out.signal.lim_score)
    /\ out.signal.action = "BUY"
    /\ out.signal.confidence > ScoresOf(ManagerFor(req.strategy), ScoredFrame).buy

-----------------------------------------------------------------------------
(* The decision of analyze (SpecAnalyze)                                   *)

\* the signal is the decision the adjusted scores adj call for
DecidedBy(signal, adj, min_conf) ==
    /\ signal.action = "BUY"  <=> (adj.buy > adj.sell /\ adj.buy * 10 >= min_conf)
    /\ signal.action = "SELL" <=> (adj.sell > adj.buy /\ adj.sell * 10 >= min_conf)
    /\ signal.action = "BUY"  => signal.confidence = adj.buy
    /\ signal.action = "SELL" => signal.confidence = adj.sell
    /\ signal.action \in {"BUY", "SELL"} =>
           IsNum(signal.stop_loss) /\ IsNum(signal.take_profit)

\* a HOLD has confidence 0 and neither stop_loss nor take_profit
BareHold(signal) ==
    signal.action = "HOLD" =>
        /\ signal.confidence = 0
        /\ signal.stop_loss = NaN
        /\ signal.take_profit = NaN

\* C28: analyze returns BUY exactly when after the liquidity adjustment
\* buy_score is above sell_score and at least min_confidence, SELL
\* symmetrically, HOLD otherwise (equal scores included); a BUY or SELL has
\* the winning score as confidence and carries stop_loss and take_profit, a
\* HOLD has confidence 0 and carries neither.
C28_DecisionByScores ==
    /\ Adjusted =>
           DecidedBy(out.signal,
                     AdjustedScores(ManagerFor(req.strategy), out.signal.lim_score,
                                    ScoresOf(ManagerFor(req.strategy), ScoredFrame)),
                     ManagerFor(req.strategy).norm.min_confidence)
    /\ AnalyzeReturned /\ ~out.raised =>
           /\ BareHold(out.signal)
           /\ out.signal.action \in {"BUY", "SELL", "HOLD"}
           /\ out.signal.action # "HOLD" => Adjusted

\* equal scores above min_confidence were held
C28_TieHeld ==
    /\ Adjusted
    /\ LET adj == AdjustedScores(ManagerFor(req.strategy), out.signal.lim_score,
                                 ScoresOf(ManagerFor(req.strategy), ScoredFrame))
       IN  /\ adj.buy = adj.sell
           /\ adj.buy * 10 >= ManagerFor(req.strategy).norm.min_confidence
    /\ out.signal.action = "HOLD"

-----------------------------------------------------------------------------
(* The daily loss limit (SpecExec)                                         *)

\* the daily loss limit is on and reached while no position is open
LockedOut(executor, br) ==
    /\ executor.max_daily_loss > 0
    /\ executor.daily_pnl <= -executor.max_daily_loss
    /\ br.positions = <<>>

\* C29: daily_pnl is rewritten only by a manage_positions call that observes
\* at least one open position, to the sum of the floating profits; hence once
\* max_daily_loss > 0 and daily_pnl <= -max_daily_loss while no position is
\* open, it stays so and every later execute_signal returns False without
\* sending an order.
C29_DailyLossLocksOut ==
    [][ /\ te'.daily_pnl # te.daily_pnl =>
              /\ last'.op = "manage_positions"
              /\ broker.positions # <<>>
              /\ te'.daily_pnl = SumProfit(broker.positions)
        /\ LockedOut(te, broker) =>
              /\ LockedOut(te', broker')
              /\ last'.op = "execute_signal" => ~last'.ret /\ ~last'.sent ]_vars

\* a BUY or SELL was refused while the executor was locked out
C29_RefusedWhenLockedOut ==
    /\ LockedOut(te, broker)
    /\ last.op = "execute_signal"
    /\ last.action \in {"BUY", "SELL"}
    /\ ~last.ret
    /\ ~last.sent

-----------------------------------------------------------------------------
(* The streaks (SpecExec)                                                  *)

\* the win trigger of the progression am
WinTrigger(am) == Get(am, "consecutive_wins_trigger", 3)

\* C30: after any sequence of close_position calls from a fresh executor at
\* most one of consecutive_wins and consecutive_losses is non-zero and both
\* are >= 0; so with a win trigger >= 1 no calculate_position_size call
\* applies both the anti-martingale multiplier and the recovery increment.
C30_OneStreakAtATime ==
    /\ te.consecutive_wins >= 0
    /\ te.consecutive_losses >= 0
    /\ te.consecutive_wins = 0 \/ te.consecutive_losses = 0
    /\ \A id \in ExecStrategyIds :
          LET self == [te EXCEPT !.strategy_manager = id]
              am   == AntiMartingale(self)
          IN  WinTrigger(am) >= 1 =>
                 ~(/\ Truthy(am) /\ self.consecutive_wins >= WinTrigger(am)
                   /\ RecoveryIncrement(self, am) > 0)

\* an order was sized with the win multiplier of a strategy that has a
\* recovery increment, and the increment stayed out
C30_WinMultiplierAlone ==
    /\ last.op = "execute_signal"
    /\ last.sized
    /\ te.consecutive_wins >= WinTrigger(AntiMartingale(te))
    /\ WinMultiplier(te, AntiMartingale(te)) > 10
    /\ RecoveryIncrement(te, AntiMartingale(te)) = 0
    /\ Get(AntiMartingale(te), "recovery_extra_risk_after_loss", 0) > 0

-----------------------------------------------------------------------------
(* The reload signal (SpecLoopRuns)                                        *)

\* the step just taken called reload_strategy
ReloadCalled == loop.reload.called

\* C24 as stated: whenever config/.reload_strategy exists, the running loop
\* eventually calls reload_strategy (at the top of a cycle or while
\* collecting).
C24_SignalLeadsToReload == disk.signal ~> ReloadCalled

-----------------------------------------------------------------------------
(* The executor and the symbols of a cycle (SpecLoop)                      *)

\* the step just taken called trade_executor.execute_signal
ExecuteCalled == loop.step.op = "process" /\ loop.step.executed

\* the executor works for the manager self with self's risk parameters
SyncedWith(executor, self) ==
    LET rp == get_risk_parameters(ManagerFor(self))
    IN  /\ executor.strategy_manager = self
        /\ executor.risk_per_trade_min = rp.risk_per_trade_min
        /\ executor.risk_per_trade_max = rp.risk_per_trade_max
        /\ executor.max_positions = rp.max_positions

\* C25 as stated: at every call of trade_executor.execute_signal in the loop
\* the executor's strategy_manager is current_strategy_manager and its
\* risk_per_trade_min, risk_per_trade_max and max_positions are those of
\* that strategy, wherever the last reload happened.
C25_ExecutorFollowsStrategy ==
    ExecuteCalled => SyncedWith(te, glob.current_strategy_manager)

\* the step just taken was the top of a cycle whose reload brought a strategy
\* none of whose symbols the terminal knows
ReloadedUnverifiable ==
    /\ loop.step.op = "top"
    /\ loop.reload.called
    /\ verify_symbols_availability(loop.reload.after.symbols[2]) = <<>>

\* the step just taken was the loop body for a symbol
SymbolProcessed == loop.step.op = "process"

\* C26 as stated: when the reloaded strategy has no symbol that verifies, the
\* list of the cycle is the list verified before; and the loop body only ever
\* runs for symbols that passed verify_symbols_availability.
C26_OnlyVerifiedSymbols ==
    /\ ReloadedUnverifiable =>
           glob.current_trading_symbols = loop.reload.before.symbols
    /\ SymbolProcessed => loop.step.symbol \in MT5Symbols

-----------------------------------------------------------------------------
(* The market the loop trades in (SpecLoop)                                *)

\* the account is below its peak by at least the level-1 threshold of self
BelowPeak(self, account, market) ==
    /\ "dre_l1_thresh" \in DOMAIN self.norm
    /\ market.peak_equity > 0
    /\ (market.peak_equity - account.equity) * 1000
           >= self.norm.dre_l1_thresh * market.peak_equity

\* the symbol's spread is above ATR x max_spread_multiplier of self
SpreadTooWide(self, df, market) ==
    ~check_spread_filter(self, market.spread, calculate_indicators(self, df).df)

\* C27 as stated: an order placed while equity is below the peak by at least
\* the level-1 threshold is sized with a drawdown multiplier below 1.0, and a
\* spread above ATR x multiplier blocks the signal of the cycle.
C27_LoopSeesMarket ==
    LET self == ManagerFor(glob.current_strategy_manager) IN
    /\ ExecuteCalled /\ BelowPeak(self, broker.account, loop.step.market)
           => loop.step.dd_multiplier < 10
    /\ SymbolProcessed /\ loop.step.df.kind # "none"
                       /\ SpreadTooWide(self, loop.step.df, loop.step.market)
           => loop.step.action = "HOLD"

====
